---- MODULE Spec2Model ----
(***************************************************************************)
(* The incremental octree point locator                                    *)
(* (svtkIncrementalOctreePointLocator.cxx) as a state machine.             *)
(*                                                                         *)
(* Numbers.  Coordinates are the program's doubles restricted to integers  *)
(* (every coordinate, box bound and mid point of the model is an integer,  *)
(* so the arithmetic of the program is exact on them).  Squared distances  *)
(* do not fit TLC's 32-bit integers; they are carried as two-limb numbers  *)
(* [h, l] of value h * BASE + l, in TENTHS of a squared unit, so that the  *)
(* program's "radius2 * 1.1" is exact as well.  SVTK_DOUBLE_MAX and the    *)
(* +infinity that SVTK_DOUBLE_MAX * 1.1 overflows to are two sentinels.    *)
(*                                                                         *)
(* The octree is a function from node paths (the sequence of child indices *)
(* from the root, <<>> being the root) to node records; the empty function *)
(* is OctreeRootNode == nullptr.  The class svtkIncrementalOctreeNode is   *)
(* not part of the sources at hand: its operations are taken from the      *)
(* design document (sections 3 and 4.1).                                   *)
(***************************************************************************)
EXTENDS Integers, Sequences, FiniteSets

\* ------------------------------------------------------------------------
\* Bounds of the model
\* ------------------------------------------------------------------------

\* most insertions into one tree
MaxInserts == 3

\* the leaf capacity the model is run with (the class default is 128)
MaxPointsPerLeaf == 1

\* ------------------------------------------------------------------------
\* Two-limb arithmetic on squared distances (tenths of a squared unit)
\* ------------------------------------------------------------------------

BASE == 10000 * 10000

HALFBASE == 100 * 100

BigZero == [h |-> 0, l |-> 0]

\* SVTK_DOUBLE_MAX, and the +infinity that arithmetic on it overflows to
DOUBLE_MAX == [h |-> 2000 * 1000000, l |-> 0]

DOUBLE_INF == [h |-> 2100 * 1000000, l |-> 0]

BigLess(x, y) ==
    x.h < y.h \/ (x.h = y.h /\ x.l < y.l)

BigLeq(x, y) ==
    x.h < y.h \/ (x.h = y.h /\ x.l <= y.l)

IsFinite(x) ==
    x.h < DOUBLE_MAX.h

\* x + y; SVTK_DOUBLE_MAX + SVTK_DOUBLE_MAX is +infinity, and
\* SVTK_DOUBLE_MAX + (a distance of the model) rounds to SVTK_DOUBLE_MAX
BigAdd(x, y) ==
    IF x = DOUBLE_INF \/ y = DOUBLE_INF \/ (x = DOUBLE_MAX /\ y = DOUBLE_MAX)
    THEN DOUBLE_INF
    ELSE IF x = DOUBLE_MAX \/ y = DOUBLE_MAX
    THEN DOUBLE_MAX
    ELSE [h |-> x.h + y.h + ((x.l + y.l) \div BASE), l |-> (x.l + y.l) % BASE]

\* k * x for a small natural k (k <= 10)
BigScale(k, x) ==
    [h |-> k * x.h + ((k * x.l) \div BASE), l |-> (k * x.l) % BASE]

\* x / 10, exact on the tenths the model carries
BigDiv10(x) ==
    [h |-> x.h \div 10, l |-> (((x.h % 10) * BASE) + x.l) \div 10]

\* x * 1.1; SVTK_DOUBLE_MAX * 1.1 overflows to +infinity
Times1p1(x) ==
    IF ~IsFinite(x) THEN DOUBLE_INF ELSE BigAdd(x, BigDiv10(x))

Abs(d) ==
    IF d < 0 THEN -d ELSE d

\* d * d as a two-limb number of squared units, for |d| < 40000000
BigSquare(d) ==
    LET a == Abs(d) \div HALFBASE
        b == Abs(d) % HALFBASE
        c == 2 * a * b
        low == ((c % HALFBASE) * HALFBASE) + (b * b)
    IN  [h |-> (a * a) + (c \div HALFBASE) + (low \div BASE), l |-> low % BASE]

\* the tenths of a number of squared units
Tenths(x) ==
    BigScale(10, x)

\* svtkMath::Distance2BetweenPoints
Distance2BetweenPoints(p, q) ==
    Tenths(BigAdd(BigAdd(BigSquare(p[1] - q[1]), BigSquare(p[2] - q[2])),
                  BigSquare(p[3] - q[3])))

\* ------------------------------------------------------------------------
\* svtkIncrementalOctreeNode (design document, sections 3 and 4.1)
\* ------------------------------------------------------------------------

Axes == 1..3

\* the data box of a node without points: min above every coordinate, max
\* below every coordinate
COORD_MAX == 2000 * 1000000

EmptyDataMin == <<COORD_MAX, COORD_MAX, COORD_MAX>>

EmptyDataMax == <<-COORD_MAX, -COORD_MAX, -COORD_MAX>>

\* a new node: an empty leaf with the given box
NewNode(minB, maxB) ==
    [MinBounds |-> minB, MaxBounds |-> maxB,
     MinDataBounds |-> EmptyDataMin, MaxDataBounds |-> EmptyDataMax,
     NumberOfPoints |-> 0, IsLeaf |-> TRUE, PointIdSet |-> <<>>]

\* contains_point: half-open on min, closed on max
ContainsPoint(node, p) ==
    \A i \in Axes : node.MinBounds[i] < p[i] /\ p[i] <= node.MaxBounds[i]

\* contains_point_by_data: the same test against the data box
ContainsPointByData(node, p) ==
    \A i \in Axes : node.MinDataBounds[i] < p[i] /\ p[i] <= node.MaxDataBounds[i]

\* mid_point: the centre of the box
MidPoint(node) ==
    [i \in Axes |-> (node.MinBounds[i] + node.MaxBounds[i]) \div 2]

Bit(b) ==
    IF b THEN 1 ELSE 0

\* child_index: (x > mid.x) << 0 | (y > mid.y) << 1 | (z > mid.z) << 2
GetChildIndex(node, p) ==
    LET mid == MidPoint(node)
    IN  Bit(p[1] > mid[1]) + (2 * Bit(p[2] > mid[2])) + (4 * Bit(p[3] > mid[3]))

\* bit `axis` of child index c
ChildBit(c, i) ==
    (c \div (IF i = 1 THEN 1 ELSE IF i = 2 THEN 2 ELSE 4)) % 2

\* the box of child c: the 8 child boxes tile the parent box
ChildNode(node, c) ==
    LET mid == MidPoint(node)
    IN  NewNode([i \in Axes |-> IF ChildBit(c, i) = 1 THEN mid[i] ELSE node.MinBounds[i]],
                [i \in Axes |-> IF ChildBit(c, i) = 1 THEN node.MaxBounds[i] ELSE mid[i]])

\* One axis of distance2_to_boundary: the offset of p from the box on this
\* axis, 0 inside; a face that coincides with the root's face does not
\* contribute.
AxisOffset(p, lo, hi, rootLo, rootHi) ==
    IF p < lo THEN (IF lo = rootLo THEN 0 ELSE lo - p)
    ELSE IF p > hi THEN (IF hi = rootHi THEN 0 ELSE p - hi)
    ELSE 0

\* distance2_to_boundary(p, root, use_data_box)
GetDistance2ToBoundary(node, p, root, checkData) ==
    IF checkData /\ node.NumberOfPoints = 0
    THEN DOUBLE_MAX
    ELSE LET lo == IF checkData THEN node.MinDataBounds ELSE node.MinBounds
             hi == IF checkData THEN node.MaxDataBounds ELSE node.MaxBounds
             rlo == IF checkData THEN root.MinDataBounds ELSE root.MinBounds
             rhi == IF checkData THEN root.MaxDataBounds ELSE root.MaxBounds
             off(i) == AxisOffset(p[i], lo[i], hi[i], rlo[i], rhi[i])
         IN  Tenths(BigAdd(BigAdd(BigSquare(off(1)), BigSquare(off(2))), BigSquare(off(3))))

\* the point of the chosen box nearest to p (the second result of
\* distance2_to_boundary)
ClosestPointOnBox(node, p, checkData) ==
    LET lo == IF checkData THEN node.MinDataBounds ELSE node.MinBounds
        hi == IF checkData THEN node.MaxDataBounds ELSE node.MaxBounds
    IN  [i \in Axes |-> IF p[i] < lo[i] THEN lo[i] ELSE IF p[i] > hi[i] THEN hi[i] ELSE p[i]]

SetMin(S) ==
    CHOOSE x \in S : \A y \in S : x <= y

SetMax(S) ==
    CHOOSE x \in S : \A y \in S : x >= y

\* distance2_to_inner_boundary(p, root): the squared distance from p to the
\* nearest face of the box that is not on the root boundary; SVTK_DOUBLE_MAX
\* when every face is on the root boundary
GetDistance2ToInnerBoundary(node, p, root) ==
    LET faces == {Abs(p[i] - node.MinBounds[i]) :
                      i \in {j \in Axes : node.MinBounds[j] # root.MinBounds[j]}}
                 \cup {Abs(node.MaxBounds[i] - p[i]) :
                      i \in {j \in Axes : node.MaxBounds[j] # root.MaxBounds[j]}}
    IN  IF faces = {} THEN DOUBLE_MAX ELSE Tenths(BigSquare(SetMin(faces)))

\* the ancestors of a node path, the path itself included
Prefixes(path) ==
    {SubSeq(path, 1, k) : k \in 0..Len(path)}

\* the paths of the 8 children of a node, in child order
ChildPaths(path) ==
    [c \in 1..8 |-> Append(path, c - 1)]

\* the set of the elements of a sequence
Range(seq) ==
    {seq[k] : k \in 1..Len(seq)}

\* the data type of the point containers the locator is given
\* (LocatorPoints->GetDataType())
VARIABLE DataType

SVTK_FLOAT == "float"

SVTK_DOUBLE == "double"

\* the distance between two neighbouring values of the float type, in the
\* units of the coordinates: the values of the double type are the integers
FloatUlp == 3 * 100

\* static_cast<float>(c): the nearest value of the float type
StaticCastFloat(c) ==
    ((c + FloatUlp \div 2) \div FloatUlp) * FloatUlp

FloatPoint(point) ==
    [i \in 1..3 |-> StaticCastFloat(point[i])]

\* the point container: ids are dense and start at 0 (svtkPoints::GetPoint);
\* P holds the coordinates as they were handed to InsertNextPoint, and a
\* container of float type has kept and returns the nearest float values
GetPoint(P, id) ==
    IF DataType = SVTK_FLOAT THEN FloatPoint(P[id + 1]) ELSE P[id + 1]

\* the tight box of the points of a list of ids
DataMinOf(ids, P) ==
    IF ids = <<>> THEN EmptyDataMin
    ELSE [i \in Axes |-> SetMin({GetPoint(P, id)[i] : id \in Range(ids)})]

DataMaxOf(ids, P) ==
    IF ids = <<>> THEN EmptyDataMax
    ELSE [i \in Axes |-> SetMax({GetPoint(P, id)[i] : id \in Range(ids)})]

\* Step 2 of the insertion: 8 empty child leaves, every id moved into the
\* child whose box contains its point, the children's data bounds recomputed,
\* the node turned internal with its own data bounds kept.
Subdivide(t, path, P) ==
    LET node == t[path]
        kids == ChildPaths(path)
        child(c) ==
            LET box == ChildNode(node, c)
                ids == SelectSeq(node.PointIdSet, LAMBDA id : ContainsPoint(box, GetPoint(P, id)))
            IN  [box EXCEPT !.PointIdSet = ids,
                            !.NumberOfPoints = Len(ids),
                            !.MinDataBounds = DataMinOf(ids, P),
                            !.MaxDataBounds = DataMaxOf(ids, P)]
    IN  [n \in DOMAIN t \cup Range(kids) |->
            IF n = path THEN [node EXCEPT !.IsLeaf = FALSE, !.PointIdSet = <<>>]
            ELSE IF n \in DOMAIN t THEN t[n]
            ELSE child(n[Len(n)])]

\* every side of the box is at least 2 * fudge_factor
MayDivide(node, fudge) ==
    \A i \in Axes : node.MaxBounds[i] - node.MinBounds[i] >= 2 * fudge

\* insertion of point p with id `id` into a leaf (section 4.1): append the id,
\* extend the data bounds and the counts of the leaf and of its ancestors,
\* then subdivide an over-full leaf whose box is not at the fudge floor
NodeInsertPoint(t, leaf, P, p, id, maxPts, fudge) ==
    LET t1 == [n \in DOMAIN t |->
                  IF n \in Prefixes(leaf)
                  THEN [t[n] EXCEPT
                          !.NumberOfPoints = @ + 1,
                          !.MinDataBounds = [i \in Axes |-> IF p[i] < @[i] THEN p[i] ELSE @[i]],
                          !.MaxDataBounds = [i \in Axes |-> IF p[i] > @[i] THEN p[i] ELSE @[i]],
                          !.PointIdSet = IF n = leaf THEN Append(@, id) ELSE @]
                  ELSE t[n]]
    IN  IF Len(t1[leaf].PointIdSet) > maxPts /\ MayDivide(t1[leaf], fudge)
        THEN Subdivide(t1, leaf, P)
        ELSE t1

\* every id beneath a node, in depth-first order (ExportAllPointIdsByInsertion,
\* ExportAllPointIdsByDirectSet)
RECURSIVE ExportAllPointIds(_, _)
ExportAllPointIds(t, path) ==
    IF t[path].IsLeaf THEN t[path].PointIdSet
    ELSE LET kids == ChildPaths(path)
         IN  ExportAllPointIds(t, kids[1]) \o ExportAllPointIds(t, kids[2]) \o
             ExportAllPointIds(t, kids[3]) \o ExportAllPointIds(t, kids[4]) \o
             ExportAllPointIds(t, kids[5]) \o ExportAllPointIds(t, kids[6]) \o
             ExportAllPointIds(t, kids[7]) \o ExportAllPointIds(t, kids[8])

\* ------------------------------------------------------------------------
\* svtkIncrementalOctreePointLocator: the searches
\* ------------------------------------------------------------------------

\* the root node, and the null node pointer
Root == <<>>

NullNode == <<-1>>

\* GetLeafContainer
RECURSIVE GetLeafContainer(_, _, _)
GetLeafContainer(t, node, pnt) ==
    IF t[node].IsLeaf THEN node
    ELSE GetLeafContainer(t, Append(node, GetChildIndex(t[node], pnt)), pnt)

\* the loop of FindClosestPointInLeafNode from position i on
RECURSIVE ClosestInList(_, _, _, _, _, _)
ClosestInList(idList, P, point, i, pntIdx, dist2) ==
    IF i > Len(idList) THEN [id |-> pntIdx, dist2 |-> dist2]
    ELSE LET tmpIdx == idList[i]
             tmpDst == Distance2BetweenPoints(GetPoint(P, tmpIdx), point)
             better == BigLess(tmpDst, dist2)
             d == IF better THEN tmpDst ELSE dist2
             k == IF better THEN tmpIdx ELSE pntIdx
         IN  IF d = BigZero THEN [id |-> k, dist2 |-> d]
             ELSE ClosestInList(idList, P, point, i + 1, k, d)

\* FindClosestPointInLeafNode: dist2 starts at SVTK_DOUBLE_MAX; a leaf without
\* an id list gives -1
FindClosestPointInLeafNode(t, P, leafNode, point) ==
    IF t[leafNode].PointIdSet = <<>> THEN [id |-> -1, dist2 |-> DOUBLE_MAX]
    ELSE ClosestInList(t[leafNode].PointIdSet, P, point, 1, -1, DOUBLE_MAX)

\* the test of FindClosestPointInSphere on one child of an internal node
\* SphereSuspect without the distance test: only the child that contains the
\* point is visited
SphereSuspectContainingOnly(t, childNode, point, radius2, maskNode, refDist2) ==
    childNode # maskNode /\ ContainsPoint(t[childNode], point)

SphereSuspect(t, childNode, point, radius2, maskNode, refDist2) ==
    LET distToData == IF t[childNode].NumberOfPoints # 0
                      THEN GetDistance2ToBoundary(t[childNode], point, t[Root], TRUE)
                      ELSE BigAdd(radius2, radius2)
    IN  childNode # maskNode /\
        (BigLeq(distToData, refDist2) \/ ContainsPoint(t[childNode], point))

\* the loop of FindClosestPointInSphere; nodesBase is the stack, its top last;
\* refIsMin tells that refDist2 points at minDist2 itself; pushed are the nodes
\* pushed on the stack and scanned the leaves handed to
\* FindClosestPointInLeafNode, in the order of the calls
RECURSIVE SphereLoop(_, _, _, _, _, _, _, _, _, _, _)
SphereLoop(t, P, point, radius2, maskNode, refIsMin, nodesBase, minDist2, pointIndx, pushed, scanned) ==
    IF nodesBase = <<>> \/ ~BigLess(BigZero, minDist2)
    THEN [id |-> IF BigLeq(minDist2, radius2) THEN pointIndx ELSE -1, dist2 |-> minDist2,
          maskNode |-> maskNode, pushed |-> pushed, scanned |-> scanned]
    ELSE LET checkNode == nodesBase[Len(nodesBase)]
             rest == SubSeq(nodesBase, 1, Len(nodesBase) - 1)
             refDist2 == IF refIsMin THEN minDist2 ELSE radius2
         IN  IF ~t[checkNode].IsLeaf
             THEN LET Push(suspects) ==
                          SphereLoop(t, P, point, radius2, maskNode, refIsMin,
                                     rest \o suspects, minDist2, pointIndx,
                                     pushed \o suspects, scanned)
                  IN  Push(SelectSeq(ChildPaths(checkNode),
                               LAMBDA c : SphereSuspect(t, c, point, radius2,
                                                        maskNode, refDist2)))
             ELSE LET r == FindClosestPointInLeafNode(t, P, checkNode, point)
                  IN  IF BigLess(r.dist2, minDist2)
                      THEN SphereLoop(t, P, point, radius2, maskNode, refIsMin, rest,
                                      r.dist2, r.id, pushed, Append(scanned, checkNode))
                      ELSE SphereLoop(t, P, point, radius2, maskNode, refIsMin, rest,
                                      minDist2, pointIndx, pushed, Append(scanned, checkNode))

\* FindClosestPointInSphere: the search starts at the root
FindClosestPointInSphere(t, P, point, radius2, maskNode, minDist2, refIsMin) ==
    SphereLoop(t, P, point, radius2, maskNode, refIsMin, <<Root>>, minDist2, -1,
               <<Root>>, <<>>)

\* FindClosestPointInSphereWithoutTolerance: minDist2 = radius2 * 1.1, and
\* refDist2 is minDist2
FindClosestPointInSphereWithoutTolerance(t, P, point, radius2, maskNode) ==
    FindClosestPointInSphere(t, P, point, radius2, maskNode, Times1p1(radius2), TRUE)

\* FindClosestPointInSphereWithTolerance: minDist2 = 4 * OctreeMaxDimSize^2,
\* and refDist2 is radius2
FindClosestPointInSphereWithTolerance(t, P, point, radius2, maskNode, maxDim) ==
    FindClosestPointInSphere(t, P, point, radius2, maskNode,
                             BigScale(4, Tenths(BigSquare(maxDim))), FALSE)

\* initialPt of FindClosestPoint for a point outside the octree: the point of
\* the root's data box closest to x, moved inside the root box by the fudge
\* factor on every axis on which it is on or beyond the box
InitialPoint(t, x, fudge) ==
    LET minBounds == t[Root].MinBounds
        maxBounds == t[Root].MaxBounds
        closest == ClosestPointOnBox(t[Root], x, TRUE)
    IN  [i \in Axes |->
            IF closest[i] <= minBounds[i] THEN minBounds[i] + fudge
            ELSE IF closest[i] >= maxBounds[i] THEN maxBounds[i] - fudge
            ELSE closest[i]]

\* what FindClosestPoint returns when the sphere search is not called: the
\* point found in the leaf
LeafAnswer(r) ==
    [id |-> r.id, dist2 |-> r.dist2, sphere |-> <<>>]

\* "if (elseDist2 < (*miniDist2))": the point of the sphere search e if it is
\* closer than the point r found in the leaf; sphere is the call made
CloserAnswer(r, e) ==
    [id |-> IF BigLess(e.dist2, r.dist2) THEN e.id ELSE r.id,
     dist2 |-> IF BigLess(e.dist2, r.dist2) THEN e.dist2 ELSE r.dist2,
     sphere |-> <<e>>]

\* FindClosestPoint for a point inside the octree; r is the point found in
\* its leaf pLeafNode
ClosestPointInside(t, P, x, pLeafNode, r) ==
    IF BigLess(BigZero, r.dist2) /\
       BigLess(GetDistance2ToInnerBoundary(t[pLeafNode], x, t[Root]), r.dist2)
    THEN CloserAnswer(r, FindClosestPointInSphereWithoutTolerance(t, P, x, r.dist2, pLeafNode))
    ELSE LeafAnswer(r)

\* FindClosestPoint for a point outside the octree; r is the point found in
\* the leaf pLeafNode of the initial point
ClosestPointOutside(t, P, x, pLeafNode, r) ==
    CloserAnswer(r, FindClosestPointInSphereWithoutTolerance(t, P, x, r.dist2, pLeafNode))

FindClosestPointNoEmptyCheck(t, P, x, maxDim, fudge) ==
    LET early == BigScale(4, Tenths(BigSquare(maxDim)))
    IN  IF Root \notin DOMAIN t
        THEN LeafAnswer([id |-> -1, dist2 |-> early])
        ELSE IF ContainsPoint(t[Root], x)
        THEN LET pLeafNode == GetLeafContainer(t, Root, x)
             IN  ClosestPointInside(t, P, x, pLeafNode,
                                    FindClosestPointInLeafNode(t, P, pLeafNode, x))
        ELSE LET pLeafNode == GetLeafContainer(t, Root, InitialPoint(t, x, fudge))
             IN  ClosestPointOutside(t, P, x, pLeafNode,
                                     FindClosestPointInLeafNode(t, P, pLeafNode, x))

FindClosestPointLeafOnlyOutside(t, P, x, maxDim, fudge) ==
    LET early == BigScale(4, Tenths(BigSquare(maxDim)))
    IN  IF Root \notin DOMAIN t \/ t[Root].NumberOfPoints = 0
        THEN LeafAnswer([id |-> -1, dist2 |-> early])
        ELSE IF ContainsPoint(t[Root], x)
        THEN LET pLeafNode == GetLeafContainer(t, Root, x)
             IN  ClosestPointInside(t, P, x, pLeafNode,
                                    FindClosestPointInLeafNode(t, P, pLeafNode, x))
        ELSE LeafAnswer(FindClosestPointInLeafNode(t, P,
                            GetLeafContainer(t, Root, InitialPoint(t, x, fudge)), x))

\* FindClosestPoint(x, miniDist2): the id of the closest point, its squared
\* distance and the calls of the sphere search made; t = << >> is
\* OctreeRootNode == nullptr
FindClosestPoint(t, P, x, maxDim, fudge) ==
    LET early == BigScale(4, Tenths(BigSquare(maxDim)))
    IN  IF Root \notin DOMAIN t \/ t[Root].NumberOfPoints = 0
        THEN LeafAnswer([id |-> -1, dist2 |-> early])
        ELSE IF ContainsPoint(t[Root], x)
        THEN \* the point is inside the octree
             LET pLeafNode == GetLeafContainer(t, Root, x)
             IN  ClosestPointInside(t, P, x, pLeafNode,
                                    FindClosestPointInLeafNode(t, P, pLeafNode, x))
        ELSE \* the point is outside the octree
             LET pLeafNode == GetLeafContainer(t, Root, InitialPoint(t, x, fudge))
             IN  ClosestPointOutside(t, P, x, pLeafNode,
                                     FindClosestPointInLeafNode(t, P, pLeafNode, x))

\* the squared minimum (for a point outside) and maximum distance from a point
\* to the box of a node, axis by axis
NodeDistancesMaxIsMin(node, point) ==
    LET t0(i) == point[i] - node.MinBounds[i]
        t1(i) == node.MaxBounds[i] - point[i]
        outMin(i) == IF t0(i) < 0 THEN BigSquare(t0(i))
                     ELSE IF t1(i) < 0 THEN BigSquare(t1(i))
                     ELSE BigZero
        sum == Tenths(BigAdd(BigAdd(outMin(1), outMin(2)), outMin(3)))
    IN  [outMinDst2 |-> sum, maximDist2 |-> sum]

NodeDistances(node, point) ==
    LET t0(i) == point[i] - node.MinBounds[i]
        t1(i) == node.MaxBounds[i] - point[i]
        outMin(i) == IF t0(i) < 0 THEN BigSquare(t0(i))
                     ELSE IF t1(i) < 0 THEN BigSquare(t1(i))
                     ELSE BigZero
        maxim(i) == IF t0(i) < 0 THEN BigSquare(t1(i))
                    ELSE IF t1(i) < 0 THEN BigSquare(t0(i))
                    ELSE IF t1(i) > t0(i) THEN BigSquare(t1(i))
                    ELSE BigSquare(t0(i))
    IN  [outMinDst2 |-> Tenths(BigAdd(BigAdd(outMin(1), outMin(2)), outMin(3))),
         maximDist2 |-> Tenths(BigAdd(BigAdd(maxim(1), maxim(2)), maxim(3)))]

\* FindPointsWithinSquaredRadius(node, radius2, point, idList): the ids the
\* call appends to idList
RECURSIVE FindPointsWithinSquaredRadiusNode(_, _, _, _, _)
FindPointsWithinSquaredRadiusNode(t, P, node, radius2, point) ==
    LET d == NodeDistances(t[node], point)
        kids == ChildPaths(node)
    IN  IF BigLess(radius2, d.outMinDst2)
        THEN <<>>   \* the node is totally outside the search sphere
        ELSE IF BigLeq(d.maximDist2, radius2)
        THEN ExportAllPointIds(t, node)   \* totally inside
        ELSE IF t[node].IsLeaf
        THEN SelectSeq(SubSeq(t[node].PointIdSet, 1, t[node].NumberOfPoints),
                       LAMBDA id : BigLeq(Distance2BetweenPoints(GetPoint(P, id), point), radius2))
        ELSE FindPointsWithinSquaredRadiusNode(t, P, kids[1], radius2, point) \o
             FindPointsWithinSquaredRadiusNode(t, P, kids[2], radius2, point) \o
             FindPointsWithinSquaredRadiusNode(t, P, kids[3], radius2, point) \o
             FindPointsWithinSquaredRadiusNode(t, P, kids[4], radius2, point) \o
             FindPointsWithinSquaredRadiusNode(t, P, kids[5], radius2, point) \o
             FindPointsWithinSquaredRadiusNode(t, P, kids[6], radius2, point) \o
             FindPointsWithinSquaredRadiusNode(t, P, kids[7], radius2, point) \o
             FindPointsWithinSquaredRadiusNode(t, P, kids[8], radius2, point)

\* FindPointsWithinSquaredRadius(R2, x, result): result is reset, then filled
\* from the root
FindPointsWithinSquaredRadius(t, P, R2, x) ==
    FindPointsWithinSquaredRadiusNode(t, P, Root, R2, x)

\* ------------------------------------------------------------------------
\* SortPoints: the sorter of FindClosestNPoints.  dist2ToIds is the map, a
\* sequence of [key, ids] entries in ascending key order.
\* ------------------------------------------------------------------------

SortPointsNew(N) ==
    [NumberPoints |-> 0, NumRequested |-> N, LargestDist2 |-> DOUBLE_MAX, dist2ToIds |-> <<>>]

MapPushFront(m, dist2, pntId) ==
    IF \E k \in 1..Len(m) : m[k].key = dist2
    THEN [k \in 1..Len(m) |->
             IF m[k].key = dist2 THEN [m[k] EXCEPT !.ids = <<pntId>> \o @] ELSE m[k]]
    ELSE LET below == SelectSeq(m, LAMBDA e : BigLess(e.key, dist2))
             above == SelectSeq(m, LAMBDA e : BigLess(dist2, e.key))
         IN  below \o <<[key |-> dist2, ids |-> <<pntId>>]>> \o above

\* dist2ToIds with pntId appended to the entry of dist2, the entry created in
\* key order when there is none
MapPush(m, dist2, pntId) ==
    IF \E k \in 1..Len(m) : m[k].key = dist2
    THEN [k \in 1..Len(m) |->
             IF m[k].key = dist2 THEN [m[k] EXCEPT !.ids = Append(@, pntId)] ELSE m[k]]
    ELSE LET below == SelectSeq(m, LAMBDA e : BigLess(e.key, dist2))
             above == SelectSeq(m, LAMBDA e : BigLess(dist2, e.key))
         IN  below \o <<[key |-> dist2, ids |-> <<pntId>>]>> \o above

SortPointsTrimAlways(sp) ==
    LET last == sp.dist2ToIds[Len(sp.dist2ToIds)]
    IN  IF sp.NumberPoints > sp.NumRequested /\ Len(sp.dist2ToIds) > 1
        THEN [sp EXCEPT !.NumberPoints = @ - Len(last.ids),
                        !.LargestDist2 = sp.dist2ToIds[Len(sp.dist2ToIds) - 1].key,
                        !.dist2ToIds = SubSeq(@, 1, Len(@) - 1)]
        ELSE sp

SortPointsTrimAtLeast(sp) ==
    LET last == sp.dist2ToIds[Len(sp.dist2ToIds)]
    IN  IF sp.NumberPoints > sp.NumRequested /\
           sp.NumberPoints - Len(last.ids) >= sp.NumRequested
        THEN [sp EXCEPT !.NumberPoints = @ - Len(last.ids),
                        !.LargestDist2 = sp.dist2ToIds[Len(sp.dist2ToIds) - 1].key,
                        !.dist2ToIds = SubSeq(@, 1, Len(@) - 1)]
        ELSE sp

\* the removal of the very last entry, when more than NumRequested points stay
SortPointsTrim(sp) ==
    LET last == sp.dist2ToIds[Len(sp.dist2ToIds)]
    IN  IF sp.NumberPoints > sp.NumRequested /\
           sp.NumberPoints - Len(last.ids) > sp.NumRequested
        THEN [sp EXCEPT !.NumberPoints = @ - Len(last.ids),
                        !.LargestDist2 = sp.dist2ToIds[Len(sp.dist2ToIds) - 1].key,
                        !.dist2ToIds = SubSeq(@, 1, Len(@) - 1)]
        ELSE sp

SortPointsInsertPointUntilFull(sp, dist2, pntId) ==
    IF sp.NumberPoints < sp.NumRequested
    THEN SortPointsTrim([sp EXCEPT !.NumberPoints = @ + 1,
                                   !.dist2ToIds = MapPush(@, dist2, pntId)])
    ELSE sp

\* SortPoints::InsertPoint
SortPointsInsertPoint(sp, dist2, pntId) ==
    IF BigLeq(dist2, sp.LargestDist2) \/ sp.NumberPoints < sp.NumRequested
    THEN SortPointsTrim([sp EXCEPT !.NumberPoints = @ + 1,
                                   !.dist2ToIds = MapPush(@, dist2, pntId)])
    ELSE sp

\* the ids of the map, entry after entry
RECURSIVE MapIds(_)
MapIds(m) ==
    IF m = <<>> THEN <<>> ELSE m[1].ids \o MapIds(Tail(m))

\* SortPoints::GetSortedIds: the first min(NumRequested, NumberPoints) ids
GetSortedIdsAllRetained(sp) ==
    MapIds(sp.dist2ToIds)

GetSortedIds(sp) ==
    LET numIds == IF sp.NumRequested < sp.NumberPoints THEN sp.NumRequested ELSE sp.NumberPoints
        all == MapIds(sp.dist2ToIds)
    IN  SubSeq(all, 1, IF numIds < Len(all) THEN numIds ELSE Len(all))

\* the points of an id list inserted into the sorter, in list order
RECURSIVE InsertAll(_, _, _, _)
InsertAll(sp, P, x, ids) ==
    IF ids = <<>> THEN sp
    ELSE InsertAll(SortPointsInsertPoint(sp, Distance2BetweenPoints(x, GetPoint(P, Head(ids))), Head(ids)),
                   P, x, Tail(ids))

\* ------------------------------------------------------------------------
\* FindClosestNPoints
\* ------------------------------------------------------------------------

ClosestChildOpposite(t, theParent, x, i, miniDist2, pThisNode) ==
    Append(theParent, 7 - GetChildIndex(t[theParent], x))

\* the child of theParent closest, in terms of data, to x; pThisNode when no
\* child is closer than SVTK_DOUBLE_MAX
RECURSIVE ClosestChild(_, _, _, _, _, _)
ClosestChild(t, theParent, x, i, miniDist2, pThisNode) ==
    IF i > 7 THEN pThisNode
    ELSE LET pTheChild == Append(theParent, i)
             tempDist2 == GetDistance2ToBoundary(t[pTheChild], x, t[Root], TRUE)
         IN  IF BigLess(tempDist2, miniDist2)
             THEN ClosestChild(t, theParent, x, i + 1, tempDist2, pTheChild)
             ELSE ClosestChild(t, theParent, x, i + 1, miniDist2, pThisNode)

\* the inner loop of the point-inside-the-node case: down to the child that
\* contains x
RECURSIVE DescendInside(_, _, _, _, _)
DescendInside(t, x, N, pThisNode, theParent) ==
    IF ~t[pThisNode].IsLeaf /\ t[pThisNode].NumberOfPoints > N
    THEN DescendInside(t, x, N, Append(pThisNode, GetChildIndex(t[pThisNode], x)), pThisNode)
    ELSE [pThisNode |-> pThisNode, theParent |-> theParent]

\* the inner loop of the point-outside-the-node case: down to the child
\* closest in terms of data
RECURSIVE DescendOutside(_, _, _, _, _)
DescendOutside(t, x, N, pThisNode, theParent) ==
    IF ~t[pThisNode].IsLeaf /\ t[pThisNode].NumberOfPoints > N
    THEN DescendOutside(t, x, N, ClosestChild(t, pThisNode, x, 0, DOUBLE_MAX, pThisNode), pThisNode)
    ELSE [pThisNode |-> pThisNode, theParent |-> theParent]

OneStepRegressionNever(t, N, pThisNode, theParent) ==
    pThisNode

\* pThisNode = (numPoints >= N) ? pThisNode : theParent
OneStepRegression(t, N, pThisNode, theParent) ==
    IF t[pThisNode].NumberOfPoints >= N THEN pThisNode ELSE theParent

\* the loop "while (beenFound == 0)"; numPoints is pThisNode's count on entry.
\* The result is pThisNode after the loop and, for every pass of the loop,
\* the case taken, the node the inner loop ended in and beenFound after it
RECURSIVE StartNodeLoop(_, _, _, _, _, _)
StartNodeLoop(t, x, N, pThisNode, theParent, passes) ==
    IF ContainsPoint(t[pThisNode], x)
    THEN LET d == DescendInside(t, x, N, pThisNode, theParent)
             numPoints == t[d.pThisNode].NumberOfPoints
             pass == [inside |-> TRUE, entered |-> pThisNode, ended |-> d.pThisNode,
                      beenFound |-> numPoints # 0]
         IN  IF numPoints # 0
             THEN [pThisNode |-> OneStepRegression(t, N, d.pThisNode, d.theParent),
                   passes |-> Append(passes, pass)]
             ELSE StartNodeLoop(t, x, N,
                      ClosestChild(t, d.theParent, x, 0, DOUBLE_MAX, d.pThisNode), d.theParent,
                      Append(passes, pass))
    ELSE LET d == DescendOutside(t, x, N, pThisNode, theParent)
             pass == [inside |-> FALSE, entered |-> pThisNode, ended |-> d.pThisNode,
                      beenFound |-> TRUE]
         IN  [pThisNode |-> OneStepRegression(t, N, d.pThisNode, d.theParent),
              passes |-> Append(passes, pass)]

\* the start node of FindClosestNPoints
StartNode(t, x, N) ==
    StartNodeLoop(t, x, N, Root, Root, <<>>).pThisNode

\* the test that puts a child on the queue of the traversal
KnnSuspectContainingOnly(t, pTheChild, x, maxiDist2) ==
    ContainsPointByData(t[pTheChild], x)

KnnSuspect(t, pTheChild, x, maxiDist2) ==
    ContainsPointByData(t[pTheChild], x) \/
    BigLess(GetDistance2ToBoundary(t[pTheChild], x, t[Root], TRUE), maxiDist2)

\* the traversal without the test that skips the start node
RECURSIVE KnnLoopNoSkip(_, _, _, _, _, _, _)
KnnLoopNoSkip(t, P, x, startNode, nodeQueue, ptsSorter, maxiDist2) ==
    IF nodeQueue = <<>> THEN ptsSorter
    ELSE LET pThisNode == Head(nodeQueue)
             rest == Tail(nodeQueue)
         IN  IF ~t[pThisNode].IsLeaf
             THEN KnnLoopNoSkip(t, P, x, startNode,
                      rest \o SelectSeq(ChildPaths(pThisNode),
                                  LAMBDA c : KnnSuspect(t, c, x, maxiDist2)),
                      ptsSorter, maxiDist2)
             ELSE IF BigLess(GetDistance2ToBoundary(t[pThisNode], x, t[Root], TRUE), maxiDist2)
             THEN LET sp == InsertAll(ptsSorter, P, x, ExportAllPointIds(t, pThisNode))
                  IN  KnnLoopNoSkip(t, P, x, startNode, rest, sp, sp.LargestDist2)
             ELSE KnnLoopNoSkip(t, P, x, startNode, rest, ptsSorter, maxiDist2)

\* the traversal "while (!nodeQueue.empty())"; the front of the queue is first
RECURSIVE KnnLoop(_, _, _, _, _, _, _)
KnnLoop(t, P, x, startNode, nodeQueue, ptsSorter, maxiDist2) ==
    IF nodeQueue = <<>> THEN ptsSorter
    ELSE LET pThisNode == Head(nodeQueue)
             rest == Tail(nodeQueue)
         IN  IF pThisNode = startNode
             THEN KnnLoop(t, P, x, startNode, rest, ptsSorter, maxiDist2)
             ELSE IF ~t[pThisNode].IsLeaf
             THEN KnnLoop(t, P, x, startNode,
                      rest \o SelectSeq(ChildPaths(pThisNode),
                                  LAMBDA c : KnnSuspect(t, c, x, maxiDist2)),
                      ptsSorter, maxiDist2)
             ELSE IF BigLess(GetDistance2ToBoundary(t[pThisNode], x, t[Root], TRUE), maxiDist2)
             THEN LET sp == InsertAll(ptsSorter, P, x, ExportAllPointIds(t, pThisNode))
                  IN  KnnLoop(t, P, x, startNode, rest, sp, sp.LargestDist2)
             ELSE KnnLoop(t, P, x, startNode, rest, ptsSorter, maxiDist2)

\* N clamped to the number of points of the tree
ClampN(t, N) ==
    IF N > t[Root].NumberOfPoints THEN t[Root].NumberOfPoints ELSE N

\* FindClosestNPoints(N, x, result) on an existing tree: the ids of result
FindClosestNPoints(t, P, N, x) ==
    LET n == ClampN(t, N)
    IN  IF n <= 0 THEN <<>>
        ELSE LET startNode == StartNode(t, x, n)
                 seeded == InsertAll(SortPointsNew(n), P, x, ExportAllPointIds(t, startNode))
             IN  GetSortedIds(KnnLoop(t, P, x, startNode, <<Root>>, seeded, seeded.LargestDist2))

\* ------------------------------------------------------------------------
\* GenerateRepresentation
\* ------------------------------------------------------------------------

\* the corners of the 6 faces of a node, as indices into its 8 vertices
OCTREE_NODE_FACES_LUT ==
    << <<0, 1, 5, 4>>, <<0, 4, 6, 2>>, <<6, 7, 3, 2>>,
       <<1, 3, 7, 5>>, <<2, 3, 1, 0>>, <<4, 5, 7, 6>> >>

\* node->GetBounds(bounds): xmin, xmax, ymin, ymax, zmin, zmax, as bounds[0..5]
GetBounds(node) ==
    [k \in 0..5 |-> IF k % 2 = 0 THEN node.MinBounds[(k \div 2) + 1]
                                 ELSE node.MaxBounds[(k \div 2) + 1]]

\* i & m for a mask m of one bit
BitAnd(i, m) ==
    m * ((i \div m) % 2)

\* AddPolys(node, points, polygs): the 8 vertices and the 6 quads of the node
\* appended; the ids of the new vertices follow those in points
AddPolys(node, points, polygs) ==
    LET bounds == GetBounds(node)
        ptCord(i) == <<bounds[BitAnd(i, 1)], bounds[BitAnd(i, 2)], bounds[BitAnd(i, 4)]>>
        pntIds(i) == Len(points) + i
        quad(f) == [k \in 1..4 |-> pntIds(OCTREE_NODE_FACES_LUT[f][k])]
    IN  [points |-> points \o [i \in 1..8 |-> ptCord(i - 1)],
         polygs |-> polygs \o [f \in 1..6 |-> quad(f)]]

\* the loop "while (!pairQueue.empty())": the nodes collected; the front of
\* the queue is first
RECURSIVE RepresentationLoop(_, _, _, _)
RepresentationLoop(t, nodeLevel, pairQueue, nodesList) ==
    IF pairQueue = <<>> THEN nodesList
    ELSE LET pTempNode == Head(pairQueue).first
             tempLevel == Head(pairQueue).second
             rest == Tail(pairQueue)
         IN  IF tempLevel = nodeLevel
             THEN RepresentationLoop(t, nodeLevel, rest, Append(nodesList, pTempNode))
             ELSE IF ~t[pTempNode].IsLeaf
             THEN RepresentationLoop(t, nodeLevel,
                      rest \o [c \in 1..8 |-> [first |-> ChildPaths(pTempNode)[c],
                                                second |-> nodeLevel + 1]],
                      nodesList)
             ELSE RepresentationLoop(t, nodeLevel, rest, nodesList)

\* the vertices and quads of a list of nodes
RECURSIVE AddPolysOfList(_, _, _)
AddPolysOfList(t, nodesList, polys) ==
    IF nodesList = <<>> THEN polys
    ELSE AddPolysOfList(t, Tail(nodesList), AddPolys(t[Head(nodesList)], polys.points, polys.polygs))

\* GenerateRepresentation(nodeLevel, polysData) on an existing tree: the nodes
\* collected and the points and polys set on polysData
GenerateRepresentation(t, nodeLevel) ==
    LET nodesList == RepresentationLoop(t, nodeLevel, <<[first |-> Root, second |-> 0]>>, <<>>)
    IN  [nodes |-> nodesList,
         polys |-> AddPolysOfList(t, nodesList, [points |-> <<>>, polygs |-> <<>>])]

\* ------------------------------------------------------------------------
\* Point insertion
\* ------------------------------------------------------------------------

\* the first id of the list whose point equals `point` component-wise, or -1
RECURSIVE FindDuplicateInList(_, _, _, _)
FindDuplicateInList(idList, P, point, i) ==
    IF i > Len(idList) THEN -1
    ELSE IF point[1] = GetPoint(P, idList[i])[1] /\ point[2] = GetPoint(P, idList[i])[2] /\
            point[3] = GetPoint(P, idList[i])[3]
    THEN idList[i]
    ELSE FindDuplicateInList(idList, P, point, i + 1)

\* the query point is cast to the float type before the comparison
FindDuplicateFloatTypePointInVisitedLeafNode(t, P, leafNode, point) ==
    FindDuplicateInList(t[leafNode].PointIdSet, P, FloatPoint(point), 1)

FindDuplicateDoubleTypePointInVisitedLeafNode(t, P, leafNode, point) ==
    FindDuplicateInList(t[leafNode].PointIdSet, P, point, 1)

FindDuplicatePointInLeafNodeSkipFirst(t, P, leafNode, point) ==
    IF t[leafNode].PointIdSet = <<>> THEN -1
    ELSE FindDuplicateInList(t[leafNode].PointIdSet, P, point, 2)

\* FindDuplicatePointInLeafNode
FindDuplicatePointInLeafNode(t, P, leafNode, point) ==
    IF t[leafNode].PointIdSet = <<>> THEN -1
    ELSE IF DataType = SVTK_FLOAT
    THEN FindDuplicateFloatTypePointInVisitedLeafNode(t, P, leafNode, point)
    ELSE FindDuplicateDoubleTypePointInVisitedLeafNode(t, P, leafNode, point)

\* IsInsertedPointForZeroTolerance: the id found and the leaf container
IsInsertedPointForZeroTolerance(t, P, x) ==
    LET leafContainer == GetLeafContainer(t, Root, x)
    IN  [id |-> FindDuplicatePointInLeafNode(t, P, leafContainer, x), leaf |-> leafContainer,
         sphere |-> <<>>]

\* "return (minDist2 <= this->InsertTolerance2) ? pointIdx : -1"
WithinTolerance(best, tol2, leafContainer) ==
    [id |-> IF BigLeq(best.dist2, tol2) THEN best.id ELSE -1, leaf |-> leafContainer,
     sphere |-> best.sphere]

\* IsInsertedPointForNonZeroTolerance once the point r closest in the leaf
\* container is known
ClosestWithinTolerance(t, P, x, tol2, maxDim, leafContainer, r) ==
    IF r.dist2 = BigZero THEN [id |-> r.id, leaf |-> leafContainer, sphere |-> <<>>]
    ELSE IF BigLess(GetDistance2ToInnerBoundary(t[leafContainer], x, t[Root]), tol2)
    THEN WithinTolerance(
             CloserAnswer(r, FindClosestPointInSphereWithTolerance(t, P, x, tol2,
                                                                   leafContainer, maxDim)),
             tol2, leafContainer)
    ELSE WithinTolerance(LeafAnswer(r), tol2, leafContainer)

\* IsInsertedPointForNonZeroTolerance: the id found, the leaf container and
\* the calls of the sphere search made
IsInsertedPointForNonZeroTolerance(t, P, x, tol2, maxDim) ==
    LET leafContainer == GetLeafContainer(t, Root, x)
    IN  ClosestWithinTolerance(t, P, x, tol2, maxDim, leafContainer,
                               FindClosestPointInLeafNode(t, P, leafContainer, x))

\* IsInsertedPoint(x, leafContainer)
IsInsertedPoint(t, P, x, tol2, maxDim) ==
    IF tol2 = BigZero
    THEN IsInsertedPointForZeroTolerance(t, P, x)
    ELSE IsInsertedPointForNonZeroTolerance(t, P, x, tol2, maxDim)

\* InitPointInsertion: the root box of the caller's bounds
\* <<xmin, xmax, ymin, ymax, zmin, zmax>>
InitDimDiff(bounds) ==
    [i \in Axes |-> bounds[2 * i] - bounds[(2 * i) - 1]]

InitMaxDimSize(bounds) ==
    LET m == SetMax({InitDimDiff(bounds)[i] : i \in Axes})
    IN  IF m > 0 THEN m ELSE 0

\* OctreeMaxDimSize * 10e-6
InitFudgeFactor(maxDim) ==
    maxDim \div 100000

\* the box after "make the bounding box a cube" (or the caller's box)
CubicBox(bounds, cubic) ==
    LET maxDim == InitMaxDimSize(bounds)
        d == InitDimDiff(bounds)
        grow(i) == cubic /\ d[i] # maxDim
    IN  [lo |-> [i \in Axes |-> IF grow(i) THEN bounds[(2 * i) - 1] - ((maxDim - d[i]) \div 2)
                                 ELSE bounds[(2 * i) - 1]],
         hi |-> [i \in Axes |-> IF grow(i) THEN bounds[2 * i] + ((maxDim - d[i]) \div 2)
                                 ELSE bounds[2 * i]],
         dimDiff |-> [i \in Axes |-> IF grow(i) THEN maxDim ELSE d[i]]]

InitRootNodeNoSlabCase(bounds, cubic) ==
    LET fudge == InitFudgeFactor(InitMaxDimSize(bounds))
        b == CubicBox(bounds, cubic)
    IN  NewNode([i \in Axes |-> b.lo[i] - fudge], [i \in Axes |-> b.hi[i]])

\* the root node InitPointInsertion creates: a slab axis pushed out to
\* minSideSize, every other axis pulled back by the fudge factor on its low side
InitRootNode(bounds, cubic) ==
    LET maxDim == InitMaxDimSize(bounds)
        fudge == InitFudgeFactor(maxDim)
        minSideSize == maxDim \div 10
        b == CubicBox(bounds, cubic)
        flat(i) == b.dimDiff[i] < minSideSize
    IN  NewNode([i \in Axes |-> IF flat(i) THEN b.hi[i] - minSideSize ELSE b.lo[i] - fudge],
                [i \in Axes |-> IF flat(i) THEN b.lo[i] + minSideSize ELSE b.hi[i]])

\* ------------------------------------------------------------------------
\* The locator as a state machine
\* ------------------------------------------------------------------------

VARIABLES
    tree,               \* the octree; << >> is OctreeRootNode == nullptr
    LocatorPoints,      \* the points of the attached container
    OctreeMaxDimSize,
    FudgeFactor,
    InsertTolerance2,
    Tolerance,          \* svtkLocator::Tolerance
    BuildCubicOctree,
    attached,           \* history: the size of the container when attached
    out,                \* the last call and what it returned
    before,             \* history: the call before an InsertUniquePoint call
    fault               \* a call went through the null root pointer

VARIABLES
    sorter,             \* a SortPoints object used on its own
    offered             \* history: the pairs InsertPoint was called with on sorter

vars == <<tree, LocatorPoints, OctreeMaxDimSize, FudgeFactor, InsertTolerance2,
          Tolerance, BuildCubicOctree, DataType, attached, out, before, fault,
          sorter, offered>>

\* what no call of the locator changes
config == <<Tolerance, BuildCubicOctree, DataType, sorter, offered>>

locator == <<tree, LocatorPoints, OctreeMaxDimSize, FudgeFactor, InsertTolerance2, attached>>

NoTree == << >>

HasTree == Root \in DOMAIN tree

\* the record of a call: its name and arguments, the number of points of the
\* tree and of the container before it, and what it returns (the defaults here)
Call(op, x, arg) ==
    [op |-> op, x |-> x, arg |-> arg,
     num |-> IF HasTree THEN tree[Root].NumberOfPoints ELSE 0,
     size |-> Len(LocatorPoints),
     id |-> -1, dist2 |-> BigZero, ids |-> <<>>, rc |-> 0,
     nodes |-> <<>>, polys |-> [points |-> <<>>, polygs |-> <<>>],
     sphere |-> <<>>]

\* the record of a call that returns the id r.id, or the id and the squared
\* distance r.dist2; sphere are the calls of the sphere search it made
Returned(call, r) ==
    [call EXCEPT !.id = r.id, !.sphere = r.sphere]

ReturnedDist2(call, r) ==
    [call EXCEPT !.id = r.id, !.dist2 = r.dist2, !.sphere = r.sphere]

\* no InsertUniquePoint call has just been made
NoBefore == [op |-> "none", x |-> <<0, 0, 0>>, id |-> -1, num |-> 0, size |-> 0]

\* what a call that goes through the null root pointer leaves behind: the
\* behaviour is undefined, the value handed back is any
Crash(op, x, arg) ==
    {[Call(op, x, arg) EXCEPT !.id = g] : g \in {-1, 0}}

\* the caller's side: the world box, the points inserted, the query points
WorldMax == 256 * 100000

CubeBounds == <<0, WorldMax, 0, WorldMax, 0, WorldMax>>



PA == <<12799772, 3000000, 3000000>>

PB == <<12799972, 3000000, 3000000>>

PC == <<3000000, 3000000, 3000000>>

PD == <<20000000, 20000000, 20000000>>

PE == <<0, 0, 0>>

PG == <<20000000, 3000000, 3000000>>

PF == <<WorldMax, WorldMax, WorldMax>>

Pts == {PA, PB, PC, PD, PE, PF}

QNear == <<12799922, 3000000, 3000000>>

QEmpty == <<20000000, 3000000, 20000000>>

QOutHigh == <<38400000, 38400000, 38400000>>

QOutLow == <<-12800000, 3000000, 3000000>>

QOutSide == <<12800000, 38400000, 3000000>>

Queries == Pts \cup {QNear, QEmpty, QOutHigh, QOutLow, QOutSide}

\* two points at the distance of the tolerance, on either side of the face
\* between the children 0 and 1 of the root: PM lies on the face
PM == <<12799872, 3000000, 3000000>>

PT == <<12800122, 3000000, 3000000>>

\* the tolerance of the runs with a tolerance
Tau == PT[1] - PM[1]

\* the constructor, for the runs without a tolerance
Init ==
    /\ tree = NoTree
    /\ LocatorPoints = <<>>
    /\ OctreeMaxDimSize = 0
    /\ FudgeFactor = 0
    /\ InsertTolerance2 = [h |-> 0, l |-> 1]   \* 0.000001: not zero
    /\ Tolerance = 0
    /\ BuildCubicOctree = FALSE
    /\ DataType = SVTK_DOUBLE
    /\ sorter = SortPointsNew(0)
    /\ offered = <<>>
    /\ attached = 0
    /\ out = Call("new", <<0, 0, 0>>, 0)
    /\ before = NoBefore
    /\ fault = FALSE

\* the constructor, followed by SetTolerance or not
InitTolerance ==
    /\ tree = NoTree
    /\ LocatorPoints = <<>>
    /\ OctreeMaxDimSize = 0
    /\ FudgeFactor = 0
    /\ InsertTolerance2 = [h |-> 0, l |-> 1]
    /\ Tolerance \in {0, Tau}
    /\ BuildCubicOctree = FALSE
    /\ DataType = SVTK_DOUBLE
    /\ sorter = SortPointsNew(0)
    /\ offered = <<>>
    /\ attached = 0
    /\ out = Call("new", <<0, 0, 0>>, 0)
    /\ before = NoBefore
    /\ fault = FALSE

CallInitPointInsertionFreesFirst(points, bounds) ==
    /\ ~fault
    /\ before' = NoBefore
    /\ UNCHANGED <<config, fault>>
    /\ IF points.null
       THEN /\ out' = Call("InitPointInsertion", <<0, 0, 0>>, bounds)
            /\ tree' = NoTree
            /\ LocatorPoints' = <<>>
            /\ attached' = 0
            /\ UNCHANGED <<OctreeMaxDimSize, FudgeFactor, InsertTolerance2>>
       ELSE /\ LocatorPoints' = points.pts
            /\ attached' = Len(points.pts)
            /\ InsertTolerance2' = Tenths(BigSquare(Tolerance))
            /\ OctreeMaxDimSize' = InitMaxDimSize(bounds)
            /\ FudgeFactor' = InitFudgeFactor(InitMaxDimSize(bounds))
            /\ tree' = [n \in {Root} |-> InitRootNode(bounds, BuildCubicOctree)]
            /\ out' = [Call("InitPointInsertion", <<0, 0, 0>>, bounds) EXCEPT !.rc = 1]

CallInitPointInsertionKeepsTree(points, bounds) ==
    /\ ~fault
    /\ before' = NoBefore
    /\ UNCHANGED <<config, fault>>
    /\ IF points.null
       THEN /\ out' = Call("InitPointInsertion", <<0, 0, 0>>, bounds)
            /\ UNCHANGED locator
       ELSE /\ LocatorPoints' = points.pts
            /\ attached' = Len(points.pts)
            /\ InsertTolerance2' = Tenths(BigSquare(Tolerance))
            /\ OctreeMaxDimSize' = InitMaxDimSize(bounds)
            /\ FudgeFactor' = InitFudgeFactor(InitMaxDimSize(bounds))
            /\ tree' = IF HasTree THEN tree
                       ELSE [n \in {Root} |-> InitRootNode(bounds, BuildCubicOctree)]
            /\ out' = [Call("InitPointInsertion", <<0, 0, 0>>, bounds) EXCEPT !.rc = 1]

\* the constructor, followed by SetBuildCubicOctree or not
InitCubic ==
    /\ tree = NoTree
    /\ LocatorPoints = <<>>
    /\ OctreeMaxDimSize = 0
    /\ FudgeFactor = 0
    /\ InsertTolerance2 = [h |-> 0, l |-> 1]
    /\ Tolerance = 0
    /\ BuildCubicOctree \in BOOLEAN
    /\ DataType = SVTK_DOUBLE
    /\ sorter = SortPointsNew(0)
    /\ offered = <<>>
    /\ attached = 0
    /\ out = Call("new", <<0, 0, 0>>, 0)
    /\ before = NoBefore
    /\ fault = FALSE

\* InitPointInsertion(points, bounds); points.null is points == nullptr
CallInitPointInsertion(points, bounds) ==
    /\ ~fault
    /\ before' = NoBefore
    /\ UNCHANGED <<config, fault>>
    /\ IF points.null
       THEN /\ out' = Call("InitPointInsertion", <<0, 0, 0>>, bounds)
            /\ UNCHANGED locator
       ELSE /\ LocatorPoints' = points.pts
            /\ attached' = Len(points.pts)
            /\ InsertTolerance2' = Tenths(BigSquare(Tolerance))
            /\ OctreeMaxDimSize' = InitMaxDimSize(bounds)
            /\ FudgeFactor' = InitFudgeFactor(InitMaxDimSize(bounds))
            /\ tree' = [n \in {Root} |-> InitRootNode(bounds, BuildCubicOctree)]
            /\ out' = [Call("InitPointInsertion", <<0, 0, 0>>, bounds) EXCEPT !.rc = 1]

\* GetNumberOfPoints
GetNumberOfPoints ==
    IF ~HasTree THEN 0 ELSE tree[Root].NumberOfPoints

\* FreeSearchStructure: the tree is deleted and the container released
CallFreeSearchStructure ==
    /\ ~fault
    /\ before' = NoBefore
    /\ tree' = NoTree
    /\ LocatorPoints' = <<>>
    /\ attached' = 0
    /\ out' = Call("FreeSearchStructure", <<0, 0, 0>>, 0)
    /\ UNCHANGED <<config, OctreeMaxDimSize, FudgeFactor, InsertTolerance2, fault>>

\* InsertPointWithoutChecking(point, pntId, insert): with insert = 0 the point
\* is point pntId of the container already (BuildLocator)
CallInsertPointWithoutChecking(point, pntId, insert) ==
    /\ ~fault
    /\ before' = NoBefore
    /\ UNCHANGED <<config, OctreeMaxDimSize, FudgeFactor, InsertTolerance2, attached>>
    /\ IF ~HasTree
       THEN /\ fault' = TRUE
            /\ out' \in Crash("InsertPointWithoutChecking", point, insert)
            /\ UNCHANGED <<tree, LocatorPoints>>
       ELSE LET id == IF insert = 0 THEN pntId ELSE Len(LocatorPoints)
                P == IF insert = 0 THEN LocatorPoints ELSE Append(LocatorPoints, point)
            IN  /\ tree[Root].NumberOfPoints < MaxInserts
                /\ insert = 0 =>
                      /\ pntId \in 0..(Len(LocatorPoints) - 1)
                      /\ GetPoint(LocatorPoints, pntId) = point
                      /\ pntId \notin Range(ExportAllPointIds(tree, Root))
                /\ LocatorPoints' = P
                /\ tree' = NodeInsertPoint(tree, GetLeafContainer(tree, Root, point), P,
                                           point, id, MaxPointsPerLeaf, FudgeFactor)
                /\ out' = [Call("InsertPointWithoutChecking", point, insert) EXCEPT !.id = id]
                /\ UNCHANGED fault

CallInsertUniquePointAppendFirst(point) ==
    /\ ~fault
    /\ before' = [op |-> out.op, x |-> out.x, id |-> out.id, num |-> out.num, size |-> out.size]
    /\ UNCHANGED <<config, OctreeMaxDimSize, FudgeFactor, InsertTolerance2, attached>>
    /\ IF ~HasTree
       THEN /\ fault' = TRUE
            /\ out' \in Crash("InsertUniquePoint", point, 0)
            /\ UNCHANGED <<tree, LocatorPoints>>
       ELSE LET r == IsInsertedPoint(tree, LocatorPoints, point, InsertTolerance2, OctreeMaxDimSize)
                id == Len(LocatorPoints)
                P == Append(LocatorPoints, point)
                call == Call("InsertUniquePoint", point, 0)
            IN  /\ UNCHANGED fault
                /\ tree[Root].NumberOfPoints < MaxInserts
                /\ LocatorPoints' = P
                /\ IF r.id > -1
                   THEN /\ out' = [call EXCEPT !.id = r.id]
                        /\ UNCHANGED tree
                   ELSE /\ tree' = NodeInsertPoint(tree, r.leaf, P, point, id,
                                                   MaxPointsPerLeaf, FudgeFactor)
                        /\ out' = [call EXCEPT !.id = id, !.rc = 1]

CallInsertUniquePointInsertsDuplicate(point) ==
    /\ ~fault
    /\ before' = [op |-> out.op, x |-> out.x, id |-> out.id, num |-> out.num, size |-> out.size]
    /\ UNCHANGED <<config, OctreeMaxDimSize, FudgeFactor, InsertTolerance2, attached>>
    /\ IF ~HasTree
       THEN /\ fault' = TRUE
            /\ out' \in Crash("InsertUniquePoint", point, 0)
            /\ UNCHANGED <<tree, LocatorPoints>>
       ELSE LET r == IsInsertedPoint(tree, LocatorPoints, point, InsertTolerance2, OctreeMaxDimSize)
                id == Len(LocatorPoints)
                P == Append(LocatorPoints, point)
                call == Call("InsertUniquePoint", point, 0)
            IN  /\ UNCHANGED fault
                /\ tree[Root].NumberOfPoints < MaxInserts
                /\ IF r.id > -1
                   THEN /\ out' = [call EXCEPT !.id = r.id]
                        /\ tree' = NodeInsertPoint(tree, r.leaf, LocatorPoints, point, r.id,
                                                   MaxPointsPerLeaf, FudgeFactor)
                        /\ UNCHANGED LocatorPoints
                   ELSE /\ LocatorPoints' = P
                        /\ tree' = NodeInsertPoint(tree, r.leaf, P, point, id,
                                                   MaxPointsPerLeaf, FudgeFactor)
                        /\ out' = [call EXCEPT !.id = id, !.rc = 1]

\* InsertUniquePoint(point, pntId); rc is the value returned, id is pntId
CallInsertUniquePoint(point) ==
    /\ ~fault
    /\ before' = [op |-> out.op, x |-> out.x, id |-> out.id, num |-> out.num, size |-> out.size]
    /\ UNCHANGED <<config, OctreeMaxDimSize, FudgeFactor, InsertTolerance2, attached>>
    /\ IF ~HasTree
       THEN /\ fault' = TRUE
            /\ out' \in Crash("InsertUniquePoint", point, 0)
            /\ UNCHANGED <<tree, LocatorPoints>>
       ELSE LET r == IsInsertedPoint(tree, LocatorPoints, point, InsertTolerance2, OctreeMaxDimSize)
                id == Len(LocatorPoints)
                P == Append(LocatorPoints, point)
                call == Call("InsertUniquePoint", point, 0)
            IN  /\ UNCHANGED fault
                /\ IF r.id > -1
                   THEN /\ out' = [call EXCEPT !.id = r.id]
                        /\ UNCHANGED <<tree, LocatorPoints>>
                   ELSE /\ tree[Root].NumberOfPoints < MaxInserts
                        /\ LocatorPoints' = P
                        /\ tree' = NodeInsertPoint(tree, r.leaf, P, point, id,
                                                   MaxPointsPerLeaf, FudgeFactor)
                        /\ out' = [call EXCEPT !.id = id, !.rc = 1]

\* IsInsertedPoint(x)
CallIsInsertedPoint(x) ==
    /\ ~fault
    /\ before' = NoBefore
    /\ UNCHANGED <<config, locator>>
    /\ IF ~HasTree
       THEN /\ fault' = TRUE
            /\ out' \in Crash("IsInsertedPoint", x, 0)
       ELSE /\ out' = Returned(Call("IsInsertedPoint", x, 0),
                               IsInsertedPoint(tree, LocatorPoints, x, InsertTolerance2,
                                               OctreeMaxDimSize))
            /\ UNCHANGED fault

\* FindClosestPoint(x, miniDist2)
CallFindClosestPoint(x) ==
    /\ ~fault
    /\ before' = NoBefore
    /\ out' = ReturnedDist2(Call("FindClosestPoint", x, 0),
                            FindClosestPoint(tree, LocatorPoints, x, OctreeMaxDimSize,
                                             FudgeFactor))
    /\ UNCHANGED <<config, locator, fault>>

\* FindClosestPointWithinSquaredRadius(radius2, x, dist2), and
\* FindClosestPointWithinRadius(radius, x, dist2) with radius2 = radius * radius.
\* Without a tree the loop of the sphere search is entered, and the null root
\* dereferenced, unless minDist2 = radius2 * 1.1 is 0.
CallFindClosestPointWithinSquaredRadius(op, radius2, x) ==
    /\ ~fault
    /\ before' = NoBefore
    /\ UNCHANGED <<config, locator>>
    /\ IF ~HasTree /\ BigLess(BigZero, Times1p1(radius2))
       THEN /\ fault' = TRUE
            /\ out' \in Crash(op, x, radius2)
       ELSE LET r == IF HasTree
                     THEN FindClosestPointInSphereWithoutTolerance(tree, LocatorPoints, x,
                                                                   radius2, NullNode)
                     ELSE [id |-> -1, dist2 |-> Times1p1(radius2)]
            IN  /\ out' = [Call(op, x, radius2) EXCEPT !.id = r.id, !.dist2 = r.dist2]
                /\ UNCHANGED fault

CallFindClosestPointWithinRadius(radius, x) ==
    CallFindClosestPointWithinSquaredRadius("FindClosestPointWithinRadius",
                                            Tenths(BigSquare(radius)), x)

\* FindPointsWithinSquaredRadius(R2, x, result), and
\* FindPointsWithinRadius(R, x, result) with R2 = R * R
CallFindPointsWithinSquaredRadius(op, R2, x) ==
    /\ ~fault
    /\ before' = NoBefore
    /\ UNCHANGED <<config, locator>>
    /\ IF ~HasTree
       THEN /\ fault' = TRUE
            /\ out' \in Crash(op, x, R2)
       ELSE /\ out' = [Call(op, x, R2) EXCEPT
                          !.ids = FindPointsWithinSquaredRadius(tree, LocatorPoints, R2, x)]
            /\ UNCHANGED fault

CallFindPointsWithinRadius(R, x) ==
    CallFindPointsWithinSquaredRadius("FindPointsWithinRadius", Tenths(BigSquare(R)), x)

\* FindClosestNPoints(N, x, result)
CallFindClosestNPoints(N, x) ==
    /\ ~fault
    /\ before' = NoBefore
    /\ UNCHANGED <<config, locator>>
    /\ IF ~HasTree
       THEN /\ fault' = TRUE
            /\ out' \in Crash("FindClosestNPoints", x, N)
       ELSE /\ out' = [Call("FindClosestNPoints", x, N) EXCEPT
                          !.ids = FindClosestNPoints(tree, LocatorPoints, N, x)]
            /\ UNCHANGED fault

\* GenerateRepresentation(nodeLevel, polysData): without a tree an error is
\* reported and polysData left alone
CallGenerateRepresentation(nodeLevel) ==
    /\ ~fault
    /\ before' = NoBefore
    /\ UNCHANGED <<config, locator, fault>>
    /\ IF ~HasTree
       THEN out' = Call("GenerateRepresentation", <<0, 0, 0>>, nodeLevel)
       ELSE LET r == GenerateRepresentation(tree, nodeLevel)
            IN  out' = [Call("GenerateRepresentation", <<0, 0, 0>>, nodeLevel) EXCEPT
                           !.rc = 1, !.nodes = r.nodes, !.polys = r.polys]

\* the container and the bounds InitPointInsertion is called with
EmptyContainer == [null |-> FALSE, pts |-> <<>>]

NullContainer == [null |-> TRUE, pts |-> <<>>]

\* the radii of the radius queries: none, the distance of PA and PB, one that
\* separates PA and PB as seen from PG, and two that cover whole nodes
Radii == {0, 200, 7200100, 25000000, 39000000}

\* the points and the queries of the radius and K-nearest-neighbour runs
PtsFew == {PA, PB, PG, PD}

QueriesFew == {PA, QNear, QEmpty, QOutHigh, QOutLow, QOutSide}

\* closest-point queries on trees built by unchecked insertion
NextClosest ==
    \/ CallInitPointInsertion(EmptyContainer, CubeBounds)
    \/ \E p \in Pts : CallInsertPointWithoutChecking(p, -1, 1)
    \/ \E q \in Queries : CallFindClosestPoint(q)

SpecClosest == Init /\ [][NextClosest]_vars

\* radius queries on trees built by unchecked insertion
NextRadius ==
    \/ CallInitPointInsertion(EmptyContainer, CubeBounds)
    \/ \E p \in PtsFew : CallInsertPointWithoutChecking(p, -1, 1)
    \/ \E q \in QueriesFew, R \in {0, 200, 25000000} :
          CallFindPointsWithinSquaredRadius("FindPointsWithinSquaredRadius",
                                            Tenths(BigSquare(R)), q)
    \/ \E q \in QueriesFew, R \in Radii \ {0, 200, 25000000} :
          CallFindPointsWithinRadius(R, q)

SpecRadius == Init /\ [][NextRadius]_vars

\* the points of the runs with InsertUniquePoint, and a container that holds a
\* point when it is attached
PtsUnique == {PB, PM, PT, PD}

FilledContainer == [null |-> FALSE, pts |-> <<PD>>]

\* insertion with and without the check for an inserted point, with and
\* without a tolerance
NextUnique ==
    \/ \E c \in {EmptyContainer, FilledContainer} : CallInitPointInsertion(c, CubeBounds)
    \/ \E p \in PtsUnique : CallInsertUniquePoint(p)
    \/ \E p \in PtsUnique : CallInsertPointWithoutChecking(p, -1, 1)
    \/ \E id \in 0..(Len(LocatorPoints) - 1) :
          CallInsertPointWithoutChecking(GetPoint(LocatorPoints, id), id, 0)
    \/ \E x \in PtsUnique \cup {QNear} : CallIsInsertedPoint(x)

SpecUnique == InitTolerance /\ [][NextUnique]_vars

\* the constructor, for point containers of either type
InitFloat ==
    /\ tree = NoTree
    /\ LocatorPoints = <<>>
    /\ OctreeMaxDimSize = 0
    /\ FudgeFactor = 0
    /\ InsertTolerance2 = [h |-> 0, l |-> 1]
    /\ Tolerance = 0
    /\ BuildCubicOctree = FALSE
    /\ DataType \in {SVTK_FLOAT, SVTK_DOUBLE}
    /\ sorter = SortPointsNew(0)
    /\ offered = <<>>
    /\ attached = 0
    /\ out = Call("new", <<0, 0, 0>>, 0)
    /\ before = NoBefore
    /\ fault = FALSE

\* QNear and PB lie above the face between the children 0 and 1 of the root;
\* the float value nearest to QNear lies below it
PtsFloat == {QNear, PB, PC, PD}

\* insertion and the check for an inserted point without a tolerance, into
\* point containers of float and of double type
NextFloat ==
    \/ CallInitPointInsertion(EmptyContainer, CubeBounds)
    \/ \E p \in PtsFloat : CallInsertUniquePoint(p)
    \/ \E p \in PtsFloat : CallInsertPointWithoutChecking(p, -1, 1)
    \/ \E x \in PtsFloat \cup {PM} : CallIsInsertedPoint(x)

SpecFloat == InitFloat /\ [][NextFloat]_vars

\* the largest number of points a sorter is made for, and the number of
\* pairs offered to one sorter
MaxRequested == 2

MaxOffered == 5

\* the squared distances offered to a sorter
Dist2Set == {[h |-> 0, l |-> 10 * k] : k \in 1..3}

\* SortPoints(N), on a locator just constructed
InitSorter ==
    /\ tree = NoTree
    /\ LocatorPoints = <<>>
    /\ OctreeMaxDimSize = 0
    /\ FudgeFactor = 0
    /\ InsertTolerance2 = [h |-> 0, l |-> 1]
    /\ Tolerance = 0
    /\ BuildCubicOctree = FALSE
    /\ DataType = SVTK_DOUBLE
    /\ \E N \in 1..MaxRequested : sorter = SortPointsNew(N)
    /\ offered = <<>>
    /\ attached = 0
    /\ out = Call("new", <<0, 0, 0>>, 0)
    /\ before = NoBefore
    /\ fault = FALSE

\* SortPoints::InsertPoint(dist2, pntId): FindClosestNPoints offers every
\* point id once, here the ids are 0, 1, 2, ... in the order of the calls
CallSortPointsInsertPoint(dist2) ==
    /\ Len(offered) < MaxOffered
    /\ sorter' = SortPointsInsertPoint(sorter, dist2, Len(offered))
    /\ offered' = Append(offered, [dist2 |-> dist2, id |-> Len(offered)])
    /\ out' = [Call("SortPoints::InsertPoint", <<0, 0, 0>>, Len(offered)) EXCEPT !.dist2 = dist2]
    /\ UNCHANGED <<Tolerance, BuildCubicOctree, DataType, locator, before, fault>>

\* SortPoints::GetSortedIds(idList)
CallGetSortedIds ==
    /\ out' = [Call("SortPoints::GetSortedIds", <<0, 0, 0>>, 0) EXCEPT !.ids = GetSortedIds(sorter)]
    /\ UNCHANGED <<config, locator, before, fault>>

\* a sorter fed in every order, with and without equal distances
NextSorter ==
    \/ \E dist2 \in Dist2Set : CallSortPointsInsertPoint(dist2)
    \/ CallGetSortedIds

SpecSorter == InitSorter /\ [][NextSorter]_vars

\* every query, with and without a tree, with and without points in it
NextQueries ==
    \/ \E c \in {EmptyContainer, NullContainer} : CallInitPointInsertion(c, CubeBounds)
    \/ CallFreeSearchStructure
    \/ \E p \in {PA, PD} : CallInsertPointWithoutChecking(p, -1, 1)
    \/ \E x \in {PA, QNear, QOutHigh} : CallIsInsertedPoint(x)
    \/ \E x \in {PA, QNear, QOutHigh} : CallFindClosestPoint(x)
    \/ \E x \in {PA, QNear, QOutHigh}, R \in {0, 200, 25000000} :
          CallFindClosestPointWithinSquaredRadius("FindClosestPointWithinSquaredRadius",
                                                  Tenths(BigSquare(R)), x)
    \/ \E x \in {PA, QNear, QOutHigh}, R \in {0, 200, 25000000} :
          CallFindClosestPointWithinRadius(R, x)
    \/ \E x \in {PA, QNear, QOutHigh}, R \in {0, 200, 25000000} :
          CallFindPointsWithinSquaredRadius("FindPointsWithinSquaredRadius",
                                            Tenths(BigSquare(R)), x)
    \/ \E x \in {PA, QNear, QOutHigh}, R \in {0, 200, 25000000} :
          CallFindPointsWithinRadius(R, x)
    \/ \E x \in {PA, QNear, QOutHigh}, N \in {-1, 0, 1, 2} : CallFindClosestNPoints(N, x)

SpecQueries == InitTolerance /\ [][NextQueries]_vars

\* the ranges of an axis of the caller's bounds: a single value, a range a
\* hundredth and a tenth of the longest, and the longest
AxisRanges == {<<0, 0>>, <<0, 200000>>, <<0, 2000000>>, <<1000000, 21000000>>}

BoundsSet ==
    {<<a[1], a[2], b[1], b[2], c[1], c[2]>> : a \in AxisRanges, b \in AxisRanges, c \in AxisRanges}

\* the corners, the centre and the centres of the faces and edges of bounds
BoxPoints(bounds) ==
    {<<x, y, z>> : x \in {bounds[1], (bounds[1] + bounds[2]) \div 2, bounds[2]},
                   y \in {bounds[3], (bounds[3] + bounds[4]) \div 2, bounds[4]},
                   z \in {bounds[5], (bounds[5] + bounds[6]) \div 2, bounds[6]}}

\* InitPointInsertion with every kind of bounds, with and without a cubic
\* octree, and a point of the bounds inserted right after it
NextInit ==
    \/ \E b \in BoundsSet : CallInitPointInsertion(EmptyContainer, b)
    \/ /\ out.op = "InitPointInsertion"
       /\ out.rc = 1
       /\ \E p \in BoxPoints(out.arg) : CallInsertPointWithoutChecking(p, -1, 1)

SpecInit == InitCubic /\ [][NextInit]_vars

\* the container the locator holds, handed to InitPointInsertion once more
SameContainer == [null |-> FALSE, pts |-> LocatorPoints]

\* InitPointInsertion called again and again, with a new container or with
\* the one in use, insertions while the container holds fewer than MaxInserts
\* points, and every kind of query
NextReinit ==
    \/ \E c \in {EmptyContainer, SameContainer} : CallInitPointInsertion(c, CubeBounds)
    \/ /\ Len(LocatorPoints) < MaxInserts
       /\ \E p \in {PA, PD} : CallInsertPointWithoutChecking(p, -1, 1)
    \/ \E x \in {PD, QNear} : CallIsInsertedPoint(x)
    \/ \E x \in {PD, QNear} : CallFindClosestPoint(x)
    \/ \E x \in {PD, QNear} : CallFindClosestPointWithinRadius(25000000, x)
    \/ \E x \in {PD, QNear} : CallFindPointsWithinRadius(39000000, x)
    \/ \E x \in {PD, QNear}, N \in {1, 2} : CallFindClosestNPoints(N, x)

SpecReinit == InitTolerance /\ [][NextReinit]_vars

\* the levels GenerateRepresentation is asked for
MaxLevel == 2

\* the representation of trees built by unchecked insertion
NextRepresentation ==
    \/ CallInitPointInsertion(EmptyContainer, CubeBounds)
    \/ \E p \in PtsFew \cup {PC} : CallInsertPointWithoutChecking(p, -1, 1)
    \/ \E level \in 0..MaxLevel : CallGenerateRepresentation(level)

SpecRepresentation == Init /\ [][NextRepresentation]_vars

\* K-nearest-neighbour queries on trees built by unchecked insertion
NextKnn ==
    \/ CallInitPointInsertion(EmptyContainer, CubeBounds)
    \/ \E p \in PtsFew : CallInsertPointWithoutChecking(p, -1, 1)
    \/ \E q \in QueriesFew, N \in -1..(MaxInserts + 1) : CallFindClosestNPoints(N, q)

SpecKnn == Init /\ [][NextKnn]_vars

\* ------------------------------------------------------------------------
\* The claims
\* ------------------------------------------------------------------------

\* the ids stored in the tree
TreeIds ==
    IF HasTree THEN Range(ExportAllPointIds(tree, Root)) ELSE {}

\* the squared distance from point id to x
IdDist2(id, x) ==
    Distance2BetweenPoints(GetPoint(LocatorPoints, id), x)

\* id is a nearest point of the tree to x and d2 its squared distance, as a
\* scan over every inserted point finds them
IsBruteForceClosest(id, d2, x) ==
    /\ id \in TreeIds
    /\ d2 = IdDist2(id, x)
    /\ \A other \in TreeIds : BigLeq(d2, IdDist2(other, x))

ClosestInsideCase ==
    /\ out.op = "FindClosestPoint"
    /\ HasTree
    /\ tree[Root].NumberOfPoints > 0
    /\ ContainsPoint(tree[Root], out.x)

ClosestOutsideCase ==
    /\ out.op = "FindClosestPoint"
    /\ HasTree
    /\ tree[Root].NumberOfPoints > 0
    /\ ~ContainsPoint(tree[Root], out.x)

\* C1: for a query point inside the root box, FindClosestPoint returns an id
\* whose squared distance to the query point is the minimum over all inserted
\* points, and reports that distance.
C1_ClosestInside ==
    ClosestInsideCase => IsBruteForceClosest(out.id, out.dist2, out.x)

\* C1 witness: an inside query answered from another leaf than the one that
\* contains the query point (the sphere search found the point)
C1_Witness ==
    /\ ClosestInsideCase
    /\ out.id \notin Range(tree[GetLeafContainer(tree, Root, out.x)].PointIdSet)
    /\ IsBruteForceClosest(out.id, out.dist2, out.x)

\* C2: for a query point outside the root box of a non-empty tree,
\* FindClosestPoint returns the id and squared distance of a nearest inserted
\* point, whichever leaf the nudged projection lands in.
C2_ClosestOutside ==
    ClosestOutsideCase => IsBruteForceClosest(out.id, out.dist2, out.x)

\* C2 witness: an outside query whose nudged projection lands in an empty leaf
C2_Witness ==
    /\ ClosestOutsideCase
    /\ tree[GetLeafContainer(tree, Root, InitialPoint(tree, out.x, FudgeFactor))].NumberOfPoints = 0
    /\ IsBruteForceClosest(out.id, out.dist2, out.x)

RadiusCase ==
    /\ out.op \in {"FindPointsWithinSquaredRadius", "FindPointsWithinRadius"}
    /\ HasTree

\* the ids a scan over every inserted point finds within squared distance r2 of x
BruteForceWithin(r2, x) ==
    {id \in TreeIds : BigLeq(IdDist2(id, x), r2)}

\* C3: FindPointsWithinSquaredRadius and FindPointsWithinRadius return exactly
\* the ids of the inserted points whose squared distance to the query point is
\* at most R^2, each once.
C3_RadiusComplete ==
    RadiusCase =>
        /\ Range(out.ids) = BruteForceWithin(out.arg, out.x)
        /\ Len(out.ids) = Cardinality(Range(out.ids))

\* C3 witness: a radius query that returns a point exactly on the sphere and
\* leaves an inserted point out
C3_Witness ==
    /\ RadiusCase
    /\ \E id \in Range(out.ids) : IdDist2(id, out.x) = out.arg
    /\ TreeIds \ Range(out.ids) # {}
    /\ Range(out.ids) = BruteForceWithin(out.arg, out.x)

KnnCase ==
    /\ out.op = "FindClosestNPoints"
    /\ HasTree

\* ids are K different inserted points in ascending distance from x, and no
\* inserted point left out is closer than the last of them
IsKBest(ids, K, x) ==
    /\ Len(ids) = K
    /\ Range(ids) \subseteq TreeIds
    /\ Cardinality(Range(ids)) = K
    /\ \A i \in 1..(K - 1) : BigLeq(IdDist2(ids[i], x), IdDist2(ids[i + 1], x))
    /\ \A id \in TreeIds \ Range(ids) :
          \A i \in 1..K : BigLeq(IdDist2(ids[i], x), IdDist2(id, x))

\* C4: for 1 <= K <= the number of inserted points, FindClosestNPoints returns
\* K ids in ascending squared distance from the query point, and these are the
\* K smallest squared distances over all inserted points.
C4_KnnCorrect ==
    (KnnCase /\ 1 <= out.arg /\ out.arg <= tree[Root].NumberOfPoints) =>
        IsKBest(out.ids, out.arg, out.x)

\* C4 witness: a K-nearest-neighbour query whose first answer is not among the
\* points of the start node
C4_Witness ==
    /\ KnnCase
    /\ 1 <= out.arg
    /\ out.arg < tree[Root].NumberOfPoints
    /\ out.ids[1] \notin Range(ExportAllPointIds(tree, StartNode(tree, out.x, out.arg)))
    /\ IsKBest(out.ids, out.arg, out.x)

\* the smaller of two numbers
Min2(a, b) ==
    IF a < b THEN a ELSE b

\* C5: FindClosestNPoints returns min(K, number of inserted points) ids, and
\* none when K <= 0 or no point is inserted.
C5_KnnClamp ==
    KnnCase =>
        /\ Len(out.ids) = IF Min2(out.arg, tree[Root].NumberOfPoints) > 0
                          THEN Min2(out.arg, tree[Root].NumberOfPoints)
                          ELSE 0
        /\ Range(out.ids) \subseteq TreeIds

\* C5 witness: more points requested than inserted, and every inserted point
\* returned
C5_Witness ==
    /\ KnnCase
    /\ tree[Root].NumberOfPoints > 0
    /\ out.arg > tree[Root].NumberOfPoints
    /\ Len(out.ids) = tree[Root].NumberOfPoints

\* InsertUniquePoint has been called twice in a row with the same point
TwiceCase ==
    /\ out.op = "InsertUniquePoint"
    /\ before.op = "InsertUniquePoint"
    /\ before.x = out.x
    /\ HasTree

ToleranceCase ==
    /\ HasTree
    /\ Tolerance > 0
    /\ InsertTolerance2 = Tenths(BigSquare(Tolerance))

\* C7: with a tolerance tau > 0, IsInsertedPoint returns an inserted point
\* within tau whenever there is one, in whatever leaf, and -1 when there is
\* none; InsertUniquePoint returns such a point without inserting, or inserts
\* when there is none.
C7_ToleranceReach ==
    ToleranceCase =>
        /\ out.op = "IsInsertedPoint" =>
              /\ out.id > -1 <=> BruteForceWithin(InsertTolerance2, out.x) # {}
              /\ out.id > -1 => out.id \in BruteForceWithin(InsertTolerance2, out.x)
        /\ (out.op = "InsertUniquePoint" /\ out.rc = 0) =>
              out.id \in BruteForceWithin(InsertTolerance2, out.x)
        /\ (out.op = "InsertUniquePoint" /\ out.rc = 1) =>
              BruteForceWithin(InsertTolerance2, out.x) \ {out.id} = {}

\* C8 as stated: the root's number of points equals the size of the container
\* after InitPointInsertion and any insertions.
C8_CountEqualsContainer ==
    HasTree => tree[Root].NumberOfPoints = Len(LocatorPoints)

\* C8 amended: the root's number of points equals the size of the container
\* when the container attached by InitPointInsertion was empty and every
\* insertion appended its point.
C8_CountEqualsEmptyAttached ==
    (HasTree /\ attached = 0) => tree[Root].NumberOfPoints = Len(LocatorPoints)

\* C8 witness: checked and unchecked insertions into an empty container, the
\* last one refused as a duplicate, and the two numbers equal
C8_Witness ==
    /\ HasTree
    /\ attached = 0
    /\ out.op = "InsertUniquePoint"
    /\ out.rc = 0
    /\ tree[Root].NumberOfPoints >= 2
    /\ tree[Root].NumberOfPoints = Len(LocatorPoints)

QueryOps ==
    {"FindClosestPoint", "FindClosestPointWithinRadius", "FindClosestPointWithinSquaredRadius",
     "FindPointsWithinRadius", "FindPointsWithinSquaredRadius", "FindClosestNPoints",
     "IsInsertedPoint"}

\* C9: a query made while there is no tree does nothing and returns -1 or an
\* empty list, and the missing root node is not dereferenced.
C9_NoTreeNoOp ==
    (out.op \in QueryOps /\ ~HasTree) =>
        /\ ~fault
        /\ out.id = -1
        /\ out.ids = <<>>

\* a query on a tree that holds no point
EmptyTreeCase ==
    /\ out.op \in QueryOps
    /\ HasTree
    /\ tree[Root].NumberOfPoints = 0

\* C10: on a tree that holds no point FindClosestPoint returns -1 with the
\* squared distance (2 * OctreeMaxDimSize)^2, FindClosestPointWithinRadius
\* returns -1, the radius and the K-nearest-neighbour searches return no id,
\* and IsInsertedPoint returns -1, with and without a tolerance.
C10_EmptyTreeSentinels ==
    EmptyTreeCase =>
        /\ ~fault
        /\ out.id = -1
        /\ out.ids = <<>>
        /\ out.op = "FindClosestPoint" =>
              out.dist2 = Tenths(BigSquare(2 * OctreeMaxDimSize))

\* C10 witness: FindClosestPoint on a tree without points, called with a point
\* inside the root box
C10_Witness ==
    /\ EmptyTreeCase
    /\ out.op = "FindClosestPoint"
    /\ ContainsPoint(tree[Root], out.x)
    /\ out.id = -1
    /\ out.dist2 = Tenths(BigSquare(2 * OctreeMaxDimSize))

\* C11: InitPointInsertion called with a null point container reports failure
\* and changes neither the tree, nor the attached container, nor the fudge
\* factor, the maximum dimension and the stored squared tolerance.
C11_NullInitNoOp ==
    [][(out'.op = "InitPointInsertion" /\ out'.rc = 0) =>
          UNCHANGED <<tree, LocatorPoints, attached, FudgeFactor, OctreeMaxDimSize,
                      InsertTolerance2>>]_vars

\* C11 witness: InitPointInsertion has failed on a tree that holds points,
\* and the tree still holds them
C11_Witness ==
    /\ out.op = "InitPointInsertion"
    /\ out.rc = 0
    /\ HasTree
    /\ out.num > 0
    /\ tree[Root].NumberOfPoints = out.num
    /\ Len(LocatorPoints) = out.size

WithinCase ==
    /\ out.op \in {"FindClosestPointWithinRadius", "FindClosestPointWithinSquaredRadius"}
    /\ HasTree

\* C12: FindClosestPointWithinRadius and FindClosestPointWithinSquaredRadius
\* return a nearest inserted point when its squared distance is at most R^2,
\* and -1 otherwise, for every R >= 0; a point stored at the query point is
\* returned for R = 0.
C12_WithinRadius ==
    WithinCase =>
        IF BruteForceWithin(out.arg, out.x) # {}
        THEN /\ out.id \in TreeIds
             /\ \A other \in TreeIds : BigLeq(IdDist2(out.id, out.x), IdDist2(other, out.x))
        ELSE out.id = -1

\* InitPointInsertion has just built a root for the bounds out.arg
InitCase ==
    /\ out.op = "InitPointInsertion"
    /\ out.rc = 1

\* C13: after InitPointInsertion with bounds whose min <= max on every axis,
\* with or without a cubic octree, slabs and single-point boxes included,
\* every point of the bounds passes the root's test min < p <= max.
C13_RootContainsBounds ==
    InitCase => \A p \in BoxPoints(out.arg) : ContainsPoint(tree[Root], p)

\* the extent of the root box and of the caller's bounds on axis i
RootExtent(i) ==
    tree[Root].MaxBounds[i] - tree[Root].MinBounds[i]

\* C14 as stated: without a cubic octree every axis whose extent is less than
\* 0.1 * max_dim gets the root extent 0.1 * max_dim, and every axis of the
\* root box has at least that extent.
C14_SlabInflatedToTenth ==
    (InitCase /\ ~BuildCubicOctree) =>
        \A i \in Axes :
            /\ RootExtent(i) * 10 >= OctreeMaxDimSize
            /\ InitDimDiff(out.arg)[i] * 10 < OctreeMaxDimSize =>
                  RootExtent(i) * 10 = OctreeMaxDimSize

\* C14 amended: without a cubic octree every axis whose extent is less than
\* 0.1 * max_dim gets the root extent 0.2 * max_dim minus its own extent,
\* which is more than 0.1 * max_dim, and every axis of the root box has at
\* least the extent 0.1 * max_dim.
C14_SlabInflated ==
    (InitCase /\ ~BuildCubicOctree) =>
        \A i \in Axes :
            /\ RootExtent(i) * 10 >= OctreeMaxDimSize
            /\ InitDimDiff(out.arg)[i] * 10 < OctreeMaxDimSize =>
                  /\ RootExtent(i) * 10 = (2 * OctreeMaxDimSize) - (10 * InitDimDiff(out.arg)[i])
                  /\ RootExtent(i) * 10 > OctreeMaxDimSize

\* C14 witness: a root built, without a cubic octree, for bounds with a slab
\* axis that is not of extent 0
C14_Witness ==
    /\ InitCase
    /\ ~BuildCubicOctree
    /\ \E i \in Axes :
          /\ InitDimDiff(out.arg)[i] > 0
          /\ InitDimDiff(out.arg)[i] * 10 < OctreeMaxDimSize
          /\ RootExtent(i) * 10 = (2 * OctreeMaxDimSize) - (10 * InitDimDiff(out.arg)[i])

\* C15: InitPointInsertion with a container drops the tree there was: right
\* after it the root is a single leaf without points and GetNumberOfPoints is
\* 0, and a query returns no id but those inserted since.
C15_ReinitDropsTree ==
    /\ InitCase =>
          /\ DOMAIN tree = {Root}
          /\ tree[Root].IsLeaf
          /\ tree[Root].PointIdSet = <<>>
          /\ GetNumberOfPoints = 0
    /\ (out.op \in QueryOps /\ HasTree) =>
          /\ out.id \in TreeIds \cup {-1}
          /\ Range(out.ids) \subseteq TreeIds

\* C15 witness: a query for a point that the container still holds from the
\* tree before InitPointInsertion, and that has not been inserted since
C15_Witness ==
    /\ out.op \in QueryOps
    /\ HasTree
    /\ attached > 0
    /\ \E id \in 0..(attached - 1) :
          /\ GetPoint(LocatorPoints, id) = out.x
          /\ id \notin TreeIds
    /\ out.id \in TreeIds \cup {-1}
    /\ Range(out.ids) \subseteq TreeIds

\* C16: InsertUniquePoint returns 0 and the id IsInsertedPoint finds when there
\* is one, and then changes neither the container nor the tree; otherwise it
\* returns 1 and an id that no inserted point has, appends the point to the
\* container and adds the id to the leaf that contains the point.
C16_InsertUniqueFrame ==
    [][(out'.op = "InsertUniquePoint" /\ HasTree) =>
          LET found == IsInsertedPoint(tree, LocatorPoints, out'.x, InsertTolerance2,
                                       OctreeMaxDimSize).id
              leaf == GetLeafContainer(tree', Root, out'.x)
          IN  IF found > -1
              THEN /\ out'.rc = 0
                   /\ out'.id = found
                   /\ UNCHANGED <<tree, LocatorPoints>>
              ELSE /\ out'.rc = 1
                   /\ out'.id \notin TreeIds
                   /\ LocatorPoints' = Append(LocatorPoints, out'.x)
                   /\ GetPoint(LocatorPoints', out'.id) = out'.x
                   /\ ContainsPoint(tree'[leaf], out'.x)
                   /\ out'.id \in Range(tree'[leaf].PointIdSet)
                   /\ tree'[Root].NumberOfPoints = tree[Root].NumberOfPoints + 1]_vars

\* C16 witness: InsertUniquePoint has inserted a point into a tree with
\* points, and the new id is in a leaf beneath the root
C16_Witness ==
    /\ out.op = "InsertUniquePoint"
    /\ HasTree
    /\ out.rc = 1
    /\ out.num > 0
    /\ out.id = out.size
    /\ Len(GetLeafContainer(tree, Root, out.x)) > 0
    /\ out.id \in Range(tree[GetLeafContainer(tree, Root, out.x)].PointIdSet)

\* C17: GenerateRepresentation(level) collects exactly the nodes of the tree
\* at depth level, the root being at depth 0.
C17_RepresentationLevel ==
    (out.op = "GenerateRepresentation" /\ HasTree) =>
        /\ Range(out.nodes) = {n \in DOMAIN tree : Len(n) = out.arg}
        /\ Len(out.polys.polygs) = 6 * Cardinality({n \in DOMAIN tree : Len(n) = out.arg})

\* the points of the tree that equal x component-wise, in the data type of
\* the point container
SamePointIds(x) ==
    {id \in TreeIds :
        GetPoint(LocatorPoints, id) = (IF DataType = SVTK_FLOAT THEN FloatPoint(x) ELSE x)}

C19_Containment ==
    (HasTree /\ attached = 0) =>
        \A id \in 0..(Len(LocatorPoints) - 1) :
            LET p == GetPoint(LocatorPoints, id)
                leaf == GetLeafContainer(tree, Root, p)
            IN  /\ ContainsPoint(tree[leaf], p)
                /\ id \in Range(tree[leaf].PointIdSet)
                /\ \A n \in DOMAIN tree \ {leaf} : id \notin Range(tree[n].PointIdSet)

\* the ids of the points stored under a node
IdsUnder(n) ==
    Range(ExportAllPointIds(tree, n))

LastIds ==
    sorter.dist2ToIds[Len(sorter.dist2ToIds)].ids

\* C22 (as stated): after every InsertPoint into a sorter made for K >= 1
\* points, when more than K ids are kept, removing the entry of the largest
\* key would leave fewer than K ids.
C22_EvictsWhenKRemain ==
    (offered # <<>> /\ sorter.NumberPoints > sorter.NumRequested) =>
        sorter.NumberPoints - Len(LastIds) < sorter.NumRequested

\* C22 (amended): after every InsertPoint into a sorter made for K >= 1
\* points, when more than K ids are kept, removing the entry of the largest
\* key would leave at most K ids: the entry is dropped only when more than K
\* ids remain without it, LargestDist2 is then the largest key kept, and once
\* K + 1 pairs were offered more than K ids are kept.
C22_EvictsWhenMoreThanKRemain ==
    /\ (offered # <<>> /\ sorter.NumberPoints > sorter.NumRequested) =>
          sorter.NumberPoints - Len(LastIds) <= sorter.NumRequested
    /\ sorter.LargestDist2 # DOUBLE_MAX =>
          sorter.LargestDist2 = sorter.dist2ToIds[Len(sorter.dist2ToIds)].key
    /\ Len(offered) > sorter.NumRequested => sorter.NumberPoints > sorter.NumRequested

C22_Witness ==
    /\ out.op = "SortPoints::InsertPoint"
    /\ sorter.LargestDist2 # DOUBLE_MAX
    /\ sorter.NumberPoints > sorter.NumRequested
    /\ sorter.NumberPoints < Len(offered)

\* the ids the sorter keeps, and the ids offered to it
RetainedIds ==
    Range(MapIds(sorter.dist2ToIds))

OfferedIds ==
    {offered[k].id : k \in 1..Len(offered)}

\* the squared distance an id was offered with
OfferedDist2(id) ==
    offered[id + 1].dist2

\* the number of pairs offered with a squared distance of at most d2
OfferedWithin(d2) ==
    Cardinality({k \in 1..Len(offered) : BigLeq(offered[k].dist2, d2)})

\* C23: the sorter keeps the K best: no pair that was refused or removed has
\* a distance smaller than the K-th smallest distance offered so far, and
\* GetSortedIds exports min(K, number offered) ids, none of them farther
\* than an id that is not exported.
C23_KeepsKBest ==
    /\ \A id \in OfferedIds \ RetainedIds : OfferedWithin(OfferedDist2(id)) >= sorter.NumRequested
    /\ Len(offered) < sorter.NumRequested => RetainedIds = OfferedIds
    /\ out.op = "SortPoints::GetSortedIds" =>
          /\ Len(out.ids) = (IF sorter.NumRequested < Len(offered) THEN sorter.NumRequested
                             ELSE Len(offered))
          /\ Cardinality(Range(out.ids)) = Len(out.ids)
          /\ Range(out.ids) \subseteq OfferedIds
          /\ \A a \in Range(out.ids), b \in OfferedIds \ Range(out.ids) :
                BigLeq(OfferedDist2(a), OfferedDist2(b))

C23_Witness ==
    /\ out.op = "SortPoints::GetSortedIds"
    /\ OfferedIds \ RetainedIds # {}
    /\ RetainedIds \ Range(out.ids) # {}
    /\ \E a \in Range(out.ids), b \in OfferedIds \ Range(out.ids) : OfferedDist2(a) = OfferedDist2(b)

\* id a comes before id b in the sorter: by its key, and by the order of
\* insertion (the ids are numbered in that order) when the keys are equal
ComesBefore(a, b) ==
    \/ BigLess(OfferedDist2(a), OfferedDist2(b))
    \/ OfferedDist2(a) = OfferedDist2(b) /\ a < b

\* C24: GetSortedIds exports exactly the first min(K, count) ids kept, in
\* ascending order of the keys, ids of one key in the order of their
\* insertion; the ids kept beyond the K-th are not exported.
C24_EmitSortedOrder ==
    out.op = "SortPoints::GetSortedIds" =>
        /\ Len(out.ids) = (IF sorter.NumRequested < sorter.NumberPoints THEN sorter.NumRequested
                           ELSE sorter.NumberPoints)
        /\ Range(out.ids) \subseteq RetainedIds
        /\ \A i, j \in 1..Len(out.ids) : i < j => ComesBefore(out.ids[i], out.ids[j])
        /\ \A a \in Range(out.ids), b \in RetainedIds \ Range(out.ids) : ComesBefore(a, b)

C24_Witness ==
    /\ out.op = "SortPoints::GetSortedIds"
    /\ Len(out.ids) > 1
    /\ \E a \in Range(out.ids), b \in RetainedIds \ Range(out.ids) : OfferedDist2(a) = OfferedDist2(b)
    /\ Len(sorter.dist2ToIds) > 1

\* the keys of a sorter
KeysOf(sp) ==
    {sp.dist2ToIds[k].key : k \in 1..Len(sp.dist2ToIds)}

\* an InsertPoint call has removed an entry: a key that was kept, or the key
\* just offered and taken, is no longer kept
EntryRemoved ==
    /\ offered' # offered
    /\ sorter' # sorter
    /\ (KeysOf(sorter) \cup {offered'[Len(offered')].dist2}) \ KeysOf(sorter') # {}

\* C28: over the InsertPoint calls on one sorter, LargestDist2 starts at
\* SVTK_DOUBLE_MAX, never increases, changes only when an entry is removed,
\* and is at least every key kept; once NumRequested ids are kept, never
\* fewer are kept again.
C28_LargestDist2History ==
    /\ sorter.LargestDist2 = DOUBLE_MAX
    /\ [](\A key \in KeysOf(sorter) : BigLeq(key, sorter.LargestDist2))
    /\ [][/\ BigLeq(sorter'.LargestDist2, sorter.LargestDist2)
          /\ sorter'.LargestDist2 # sorter.LargestDist2 => EntryRemoved
          /\ sorter.NumberPoints >= sorter.NumRequested =>
                sorter'.NumberPoints >= sorter.NumRequested]_vars

C28_Witness ==
    /\ out.op = "SortPoints::InsertPoint"
    /\ sorter.LargestDist2 # DOUBLE_MAX
    /\ \E k \in 1..Len(offered) : BigLess(sorter.LargestDist2, offered[k].dist2)
    /\ \E k \in 1..Len(offered) : BigLess(offered[k].dist2, sorter.LargestDist2)

\* a K-nearest-neighbour query for 1 <= K <= the number of points of the tree
KnnValidCase ==
    /\ KnnCase
    /\ 1 <= out.arg
    /\ out.arg <= tree[Root].NumberOfPoints

\* the sorter after the points of the start node were inserted
SeededSorter ==
    InsertAll(SortPointsNew(out.arg), LocatorPoints, out.x,
              ExportAllPointIds(tree, StartNode(tree, out.x, out.arg)))

\* C25: for every tree with points, every query point and 1 <= K <= the
\* number of points, the start node of FindClosestNPoints has at least K
\* points under it, and the sorter holds at least K ids once these are
\* inserted.
C25_StartNodeHoldsK ==
    KnnValidCase =>
        /\ tree[StartNode(tree, out.x, out.arg)].NumberOfPoints >= out.arg
        /\ Len(ExportAllPointIds(tree, StartNode(tree, out.x, out.arg))) >= out.arg
        /\ SeededSorter.NumberPoints >= out.arg

\* C25 witness: the query point lies in an empty leaf, the closest sibling has
\* fewer than K points and the start node is their parent
C25_Witness ==
    /\ KnnValidCase
    /\ out.arg > 1
    /\ tree[GetLeafContainer(tree, Root, out.x)].NumberOfPoints = 0
    /\ ContainsPoint(tree[Root], out.x)
    /\ ~tree[StartNode(tree, out.x, out.arg)].IsLeaf
    /\ tree[StartNode(tree, out.x, out.arg)].NumberOfPoints >= out.arg

\* the passes of the loop that selects the start node of the last query
StartNodePasses ==
    StartNodeLoop(tree, out.x, out.arg, Root, Root, <<>>).passes

\* the node the second pass of the loop starts from
SwitchedTo ==
    StartNodePasses[2].entered

\* C26: the loop that selects the start node ends for every tree and query
\* point with 1 <= K <= the number of points: the point-inside case hands
\* over to the closest sibling at most once, and only when its descent ended
\* in a node without points; the sibling has at least one point and does not
\* contain the query point, and the point-outside pass that follows sets
\* beenFound.
C26_StartNodeLoopEnds ==
    KnnValidCase =>
        /\ Len(StartNodePasses) \in {1, 2}
        /\ StartNodePasses[Len(StartNodePasses)].beenFound
        /\ Len(StartNodePasses) = 2 =>
              /\ StartNodePasses[1].inside
              /\ ~StartNodePasses[1].beenFound
              /\ tree[StartNodePasses[1].ended].NumberOfPoints = 0
              /\ tree[SwitchedTo].NumberOfPoints >= 1
              /\ ~ContainsPoint(tree[SwitchedTo], out.x)
              /\ Len(SwitchedTo) = Len(StartNodePasses[1].ended)
              /\ SubSeq(SwitchedTo, 1, Len(SwitchedTo) - 1) =
                    SubSeq(StartNodePasses[1].ended, 1, Len(SwitchedTo) - 1)
              /\ ~StartNodePasses[2].inside
        /\ Len(StartNodePasses) = 1 /\ StartNodePasses[1].inside =>
              tree[StartNodePasses[1].ended].NumberOfPoints > 0

\* C26 witness: a query whose descent ended in an empty node and went on,
\* from the closest sibling, further down
C26_Witness ==
    /\ KnnValidCase
    /\ Len(StartNodePasses) = 2
    /\ StartNodePasses[2].ended # SwitchedTo


\* C27: FindClosestPointInSphere leaves the mask node out of the search:
\* whatever the tree (a tree whose root is itself a leaf included) and whoever
\* calls it (FindClosestPoint for a point inside or outside the octree, the
\* check for an inserted point under a tolerance), the mask node is not pushed
\* on the stack and its points are not scanned again
C27_MaskNodeExcluded ==
    \A i \in DOMAIN out.sphere :
        /\ out.sphere[i].maskNode \notin Range(out.sphere[i].pushed)
        /\ out.sphere[i].maskNode \notin Range(out.sphere[i].scanned)

\* the same for a mask node that is not the root
MaskedChildExcluded ==
    \A i \in DOMAIN out.sphere :
        out.sphere[i].maskNode # Root =>
            /\ out.sphere[i].maskNode \notin Range(out.sphere[i].pushed)
            /\ out.sphere[i].maskNode \notin Range(out.sphere[i].scanned)


\* C29: no list of ids a query returns holds the same id twice: the ids of
\* FindPointsWithinSquaredRadius and FindPointsWithinRadius, and those of
\* FindClosestNPoints, are pairwise distinct
C29_NoIdTwice ==
    out.op \in {"FindPointsWithinSquaredRadius", "FindPointsWithinRadius",
                "FindClosestNPoints"} =>
        \A i, j \in DOMAIN out.ids : i # j => out.ids[i] # out.ids[j]

\* FindClosestNPoints has returned two ids of a tree whose root has children:
\* the start node was seeded and the traversal went through the other nodes
C29_Witness ==
    /\ out.op = "FindClosestNPoints"
    /\ HasTree
    /\ ~tree[Root].IsLeaf
    /\ Len(out.ids) >= 2

\* a radius query has returned more than one id
RadiusReturnsSeveral ==
    /\ out.op \in {"FindPointsWithinSquaredRadius", "FindPointsWithinRadius"}
    /\ Len(out.ids) >= 2


\* corner i of the box of a node: bit 0 of i chooses between the minimum and
\* the maximum in x, bit 1 in y, bit 2 in z
Corner(node, i) ==
    [a \in Axes |-> IF (i \div (2 ^ (a - 1))) % 2 = 1 THEN node.MaxBounds[a]
                                                      ELSE node.MinBounds[a]]

\* the 4 points lie in one face of the box of the node: on one axis they are
\* all at the minimum, or all at the maximum
InOneFace(node, pts) ==
    \E a \in Axes :
        \/ \A p \in pts : p[a] = node.MinBounds[a]
        \/ \A p \in pts : p[a] = node.MaxBounds[a]

\* C30: for every node it is given, AddPolys emits the 8 distinct corners of
\* the node's box, vertex i having its x, y and z chosen between the minimum
\* and the maximum by the bits 0, 1 and 2 of i, and 6 quads that are the 6
\* faces of the box
C30_CornersAndFaces ==
    out.op = "GenerateRepresentation" =>
        \A k \in DOMAIN out.nodes :
            LET node == tree[out.nodes[k]]
                vertex(i) == out.polys.points[(8 * (k - 1)) + i + 1]
                quad(f) == out.polys.polygs[(6 * (k - 1)) + f]
                corners(f) == {vertex(quad(f)[c] - (8 * (k - 1))) : c \in 1..4}
            IN  /\ \A i \in 0..7 : vertex(i) = Corner(node, i)
                /\ Cardinality({vertex(i) : i \in 0..7}) = 8
                /\ \A f \in 1..6 : /\ Cardinality(corners(f)) = 4
                                   /\ InOneFace(node, corners(f))
                /\ Cardinality({corners(f) : f \in 1..6}) = 6

====
